---- MODULE Spec2Model ----
(***************************************************************************)
(* A model of the bounded crawl-and-fetch engine of YouTubeDown:           *)
(*   src/darkweb-file-downloader.py   (called the "dash" variant below)    *)
(*   src/darkweb_file_downloader.py   (called the "us" variant below)      *)
(*                                                                         *)
(* Strings are modelled structurally, because the code decides by string   *)
(* operations (endswith, rsplit, rstrip, lower):                           *)
(*   - a path segment is a sequence of tokens; the token "." is the dot    *)
(*     character and every other token is a dot-free, slash-free piece of  *)
(*     text, so "a.pdf" is <<"a", ".", "pdf">> and ".." is <<".", ".">>;   *)
(*   - a URL is a record [scheme, netloc, path, slash, query]: path is the *)
(*     sequence of its segments, slash says whether the path ends with     *)
(*     "/", query is the sequence of tokens after "?" (<<>>: no query).    *)
(***************************************************************************)
EXTENDS Integers, Sequences, FiniteSets, TLC

VARIABLES
    impl,       \* which source file runs: "dash" or "us"
    site,       \* the remote site: the pages it serves
    root,       \* the root URL given by the caller
    max_files,  \* settings.max_files
    max_depth,  \* settings.max_depth
    allow_ext,  \* settings.allow_ext
    cpc,        \* position inside crawl_directory
    host,       \* crawl_directory: host
    q,          \* crawl_directory: q, the frontier
    visited_dirs, \* crawl_directory: visited_dirs
    files,      \* crawl_directory: files
    cur,        \* crawl_directory: cur (after normalisation) and depth
    links,      \* crawl_directory: the links of the page not yet looked at
    fetchLog,   \* history: every call of fetch_text, as [url, depth, ok]
    qLog,       \* history: every entry ever appended to q
    max_bytes,  \* settings.max_mb * 1024 * 1024, in units of the model
    mode,       \* --mode: "list", "count" or "download"
    probe,      \* history: what the HEAD probe of the root returned
    fmode,      \* mode_download: "dir" (loop over the leaves) or "direct"
    fpc,        \* position inside mode_download / download_one
    todo,       \* the allowed leaves not yet attempted
    leaf,       \* the leaf being fetched: [url, name, ext, dest]
    est,        \* the size the gate uses (None: unknown)
    downloaded, \* the running byte counter of the transfer
    pending,    \* the length of the chunk read and not yet written
    disk,       \* the destination tree: path -> size of the file, Absent
    outcomes,   \* history: what each fetch returned, [dest, kind, bytes, detail]
    reqs,       \* history: the requests sent for the current leaf
    created,    \* history: every destination path ever opened for writing
    writing,    \* the current fetch has opened its destination file
    raised,     \* the exception that left the fetch ("": none)
    mpc,        \* position inside main_async
    tor_proxy,  \* --tor-proxy or TOR_PROXY, as given
    connector,  \* aiohttp_socks was imported: ProxyConnector is not None
    session,    \* history: make_session returned a ClientSession
    exit_code,  \* what main_async returned (None: still running)
    hresp,      \* input: what the server answers to the HEAD of the leaf
    rresp,      \* input: what the server answers to the GET with Range
    body,       \* input: the length of the body the server sends (None: any)
    total,      \* mode_size: total
    unknown,    \* mode_size: unknown
    sizeLog,    \* history: each leaf mode_size has probed, [url, size, reqs]
    queue,      \* main.py: queue, the jobs put and not yet taken
    put,        \* history: how many jobs the handlers have put on the queue
    wpc,        \* position inside worker ("dead": the task has ended)
    job,        \* worker: job, the job being run (NoJob: none)
    taken,      \* history: the jobs queue.get has returned, in order
    marked,     \* history: the jobs queue.task_done was called for, in order
    USER_STATES, \* state_manager: USER_STATES, chat_id -> UserState
    shown       \* history: the last callback handled, [chat, data, sent, idx, ok]

crawlVars == <<impl, site, root, max_files, max_depth, allow_ext, cpc, host, q,
               visited_dirs, files, cur, links, fetchLog, qLog>>

fetchVars == <<max_bytes, mode, probe, fmode, fpc, todo, leaf, est, downloaded, pending, disk,
               outcomes, reqs, created, writing, raised>>

mainVars == <<mpc, tor_proxy, connector, session, exit_code>>

serverVars == <<hresp, rresp, body>>

sizeVars == <<total, unknown, sizeLog>>

botVars == <<queue, put, wpc, job, taken, marked>>

chatVars == <<USER_STATES, shown>>

vars == <<crawlVars, fetchVars, mainVars, serverVars, sizeVars, botVars, chatVars>>

----------------------------------------------------------------------------
(* Bounds of the model *)

MaxFilesBound == 3
MaxDepthBound == 2
MaxBytesBound == 2     \* max_bytes ranges over 0..MaxBytesBound
MaxChunk == 2          \* a chunk of the body holds 0..MaxChunk bytes

None == 0 - 1            \* Python's None where the code expects an integer
Absent == 0 - 1          \* no file at a destination path

----------------------------------------------------------------------------
(* Sequences *)

Last(s) == s[Len(s)]
Front(s) == SubSeq(s, 1, Len(s) - 1)
NoDup(s) == \A i, j \in 1..Len(s) : s[i] = s[j] => i = j

----------------------------------------------------------------------------
(* Text *)

\* str.lower() on the tokens and host names the model uses
Lower(t) ==
    CASE t = "PDF" -> "pdf"
      [] t = "EXE" -> "exe"
      [] t = "H.onion" -> "h.onion"
      [] OTHER -> t

LowerSeq(s) == [i \in 1..Len(s) |-> Lower(s[i])]

\* the index of the last "." of a name, 0 when it has none
LastDot(name) ==
    IF \E i \in 1..Len(name) : name[i] = "."
    THEN CHOOSE i \in 1..Len(name) :
            name[i] = "." /\ \A j \in (i + 1)..Len(name) : name[j] # "."
    ELSE 0

\* norm_ext / norm_ext_from_name: the lower-cased text after the last ".",
\* <<>> (the empty string) when the name has no "." or ends with it
norm_ext(name) ==
    IF LastDot(name) = 0 THEN <<>>
    ELSE LowerSeq(SubSeq(name, LastDot(name) + 1, Len(name)))

\* urllib.parse.unquote on a segment: "%2E" is an encoded ".", "%2F" an
\* encoded "/"
Unquote(t) == IF t = "%2E" THEN "." ELSE IF t = "%2F" THEN "/" ELSE t
unquote(name) == [i \in 1..Len(name) |-> Unquote(name[i])]

DotDot == <<".", ".">>
Dot == <<".">>

\* str.endswith("..") on one segment
EndsWithDotDot(seg) ==
    Len(seg) >= 2 /\ seg[Len(seg)] = "." /\ seg[Len(seg) - 1] = "."

----------------------------------------------------------------------------
(* URLs *)

Url(s, n, p, sl, qy) ==
    [scheme |-> s, netloc |-> n, path |-> p, slash |-> sl, query |-> qy]

\* url.endswith("/") on the whole string
EndsWithSlash(u) ==
    IF u.query # <<>> THEN Last(u.query) = "/" ELSE u.slash

\* url + "/": the "/" lands in the query when the URL has one
AppendSlash(u) ==
    IF u.query # <<>> THEN [u EXCEPT !.query = Append(@, "/")]
    ELSE [u EXCEPT !.slash = TRUE]

\* the normalisation of crawl_directory: if not cur.endswith("/"): cur += "/"
NormDirMutant(u) == u
NormDir(u) == IF EndsWithSlash(u) THEN u ELSE AppendSlash(u)

\* urlparse(url).path is empty
PathEmpty(u) == u.path = <<>> /\ ~u.slash

\* looks_like_directory_path / looks_like_directory_link on urlparse(url).path
looks_like_directory_path(u) == u.slash

\* RFC 3986 remove_dot_segments, as urljoin applies it to a merged path:
\* the result is [path, slash]
RECURSIVE RemoveDots(_, _)
RemoveDots(segs, acc) ==
    IF segs = <<>> THEN acc
    ELSE IF Head(segs) = Dot THEN RemoveDots(Tail(segs), acc)
    ELSE IF Head(segs) = DotDot
         THEN RemoveDots(Tail(segs), IF acc = <<>> THEN acc ELSE Front(acc))
    ELSE RemoveDots(Tail(segs), Append(acc, Head(segs)))

\* the directory part of the base path: everything up to the last "/"
BaseDir(u) == IF u.slash \/ u.path = <<>> THEN u.path ELSE Front(u.path)

\* safe_join: urljoin(base_url, urldefrag(href)[0]).
\* An href is a record [kind, ...]:
\*   "abs":   a full URL (scheme and netloc given): kept as written, dots and all
\*   "rel":   a relative path, merged with the base directory, dots removed
\*   "root":  a path starting with "/", dots removed
\*   "query": "?...", the base path with another query
\* A "rel" or "root" href that ends in a "." or ".." segment resolves to a
\* directory (trailing "/").
safe_join(base, h) ==
    CASE h.kind = "abs" -> h.url
      [] h.kind = "rel" ->
            Url(base.scheme, base.netloc,
                RemoveDots(BaseDir(base) \o h.segs, <<>>),
                h.slash \/ (h.segs # <<>> /\ Last(h.segs) \in {Dot, DotDot})
                        \/ (h.segs = <<>> /\ (base.slash \/ base.path = <<>>)),
                h.query)
      [] h.kind = "root" ->
            Url(base.scheme, base.netloc, RemoveDots(h.segs, <<>>),
                h.slash \/ h.segs = <<>>
                        \/ (h.segs # <<>> /\ Last(h.segs) \in {Dot, DotDot}),
                h.query)
      [] h.kind = "query" ->
            Url(base.scheme, base.netloc, base.path, base.slash, h.query)

\* should_skip_href: empty, "#...", "javascript:", "mailto:"
should_skip_href(h) == h.kind = "skip"

\* the de-dup loop of parse_links / parse_links_from_listing: first
\* occurrences, in order
RECURSIVE Dedup(_, _)
Dedup(s, seen) ==
    IF s = <<>> THEN <<>>
    ELSE IF Head(s) \in seen THEN Dedup(Tail(s), seen)
    ELSE <<Head(s)>> \o Dedup(Tail(s), seen \cup {Head(s)})

\* parse_links / parse_links_from_listing on a page given as its hrefs
RECURSIVE JoinAll(_, _)
JoinAll(hrefs, base) ==
    IF hrefs = <<>> THEN <<>>
    ELSE IF should_skip_href(Head(hrefs)) THEN JoinAll(Tail(hrefs), base)
    ELSE <<safe_join(base, Head(hrefs))>> \o JoinAll(Tail(hrefs), base)

parse_links(hrefs, base) == Dedup(JoinAll(hrefs, base), {})

\* guess_name_from_url: the last path segment; the dash variant unquotes it
\* and calls a directory "file", the us variant calls it "index"
guess_name_from_url(m, u) ==
    IF u.path = <<>> \/ u.slash
    THEN (IF m = "dash" THEN <<"file">> ELSE <<"index">>)
    ELSE IF m = "dash" THEN unquote(Last(u.path)) ELSE Last(u.path)

\* url_path_parts: the non-empty segments of the path
url_path_parts(u) == u.path

FileItem(m, u) ==
    [url |-> u, name |-> guess_name_from_url(m, u),
     ext |-> norm_ext(guess_name_from_url(m, u)),
     path_parts |-> url_path_parts(u)]

\* is_allowed_ext / is_allowed
is_allowed_ext(ext, allowed) ==
    IF ext = <<>> THEN FALSE ELSE LowerSeq(ext) \in allowed

----------------------------------------------------------------------------
(* The remote site: the directory pages it serves, by path.  A page is the *)
(* sequence of the hrefs of its <a> tags, in page order.  A path the site  *)
(* does not serve answers 404.                                             *)

Hn == "h.onion"
Seg(t) == <<t>>
File(b, e) == <<b, ".", e>>
File3(a, b, c) == <<a, b, c>>
Rel(segs, sl) == [kind |-> "rel", segs |-> segs, slash |-> sl, query |-> <<>>]
RelQ(segs, qy) == [kind |-> "rel", segs |-> segs, slash |-> FALSE, query |-> <<qy>>]
Abs(segs, sl) == [kind |-> "root", segs |-> segs, slash |-> sl, query |-> <<>>]
Full(s, n, segs, sl) == [kind |-> "abs", url |-> Url(s, n, segs, sl, <<>>)]
QueryOnly(qy) == [kind |-> "query", query |-> <<qy>>]
Skip == [kind |-> "skip"]

Docs == <<Seg("docs")>>
DocsSub == <<Seg("docs"), Seg("sub")>>
DocsSubDeep == <<Seg("docs"), Seg("sub"), Seg("deep")>>

\* The scenario of the specification: a.pdf, sub/ and ../escape on the root
\* page; the sub-directory links back to its parent and to a.pdf again.
SiteScenario ==
    (Docs :> << Rel(<<File("a", "pdf")>>, FALSE), Rel(<<Seg("sub")>>, TRUE),
                Rel(<<DotDot, Seg("escape")>>, FALSE) >>)
 @@ (DocsSub :> << Rel(<<File("b", "pdf")>>, FALSE), Rel(<<DotDot>>, TRUE),
                   Abs(<<Seg("docs"), File("a", "pdf")>>, FALSE) >>)
 @@ (<<>> :> << Rel(<<Seg("docs")>>, TRUE), Rel(<<File("r", "zip")>>, FALSE) >>)

\* Cycles, the same link twice on a page, three levels of directories.
SiteCycle ==
    (Docs :> << Rel(<<Dot>>, FALSE), Rel(<<Seg("sub")>>, TRUE), Skip,
                Rel(<<File("x", "pdf")>>, FALSE),
                Rel(<<Seg("sub")>>, FALSE), Rel(<<File("x", "pdf")>>, FALSE) >>)
 @@ (DocsSub :> << Rel(<<DotDot>>, TRUE), Rel(<<Seg("deep")>>, TRUE),
                   Rel(<<DotDot, File("x", "pdf")>>, FALSE),
                   Rel(<<File("y", "PDF")>>, FALSE) >>)
 @@ (DocsSubDeep :> << Rel(<<DotDot, DotDot>>, TRUE), Rel(<<File("z", "exe")>>, FALSE),
                       Rel(<<Seg("more")>>, TRUE), Rel(<<Dot>>, FALSE) >>)

\* An index page with a sort link ("?C=N"), versioned files, a name
\* without extension and the link to the parent directory ("../").
SiteIndex ==
    (Docs :> << QueryOnly("C=N"), Rel(<<DotDot>>, TRUE),
                Rel(<<File("a", "pdf")>>, FALSE),
                RelQ(<<File("a", "pdf")>>, "v=1"), Rel(<<Seg("download")>>, FALSE),
                Rel(<<File("b", "zip")>>, FALSE), Rel(<<File("c", "exe")>>, FALSE) >>)

\* Links written as full URLs: another scheme, another host, the host in
\* capitals, a parent reference kept as written.
SiteAbsolute ==
    (Docs :> << Full("https", Hn, <<Seg("docs"), File("s", "pdf")>>, FALSE),
                Full("http", "o.onion", <<File("o", "pdf")>>, FALSE),
                Full("http", "H.onion", <<Seg("docs"), Seg("sub")>>, TRUE),
                Full("http", Hn, <<Seg("docs"), DotDot>>, FALSE),
                Full("http", Hn, <<>>, FALSE) >>)
 @@ (DocsSub :> << Rel(<<File3("a", "%2E", "pdf")>>, FALSE),
                   Full("https", Hn, <<Seg("docs")>>, TRUE) >>)

\* A tree: two sibling directories, the first of them with a sub-directory.
SiteTree ==
    (Docs :> << Rel(<<Seg("a")>>, TRUE), Rel(<<Seg("b")>>, TRUE),
                Rel(<<File("r", "pdf")>>, FALSE) >>)
 @@ (<<Seg("docs"), Seg("a")>> :>
        << Rel(<<File("a1", "pdf")>>, FALSE), Rel(<<Seg("deep")>>, TRUE) >>)
 @@ (<<Seg("docs"), Seg("b")>> :> << Rel(<<File("b1", "pdf")>>, FALSE) >>)
 @@ (<<Seg("docs"), Seg("a"), Seg("deep")>> :> << Rel(<<File("d", "pdf")>>, FALSE) >>)

\* A diamond: c/ is linked from the root page and, one level deeper, from
\* its sibling x/.
SiteDiamond ==
    (Docs :> << Rel(<<Seg("c")>>, TRUE), Rel(<<Seg("x")>>, TRUE) >>)
 @@ (<<Seg("docs"), Seg("x")>> :> << Rel(<<DotDot, Seg("c")>>, TRUE) >>)
 @@ (<<Seg("docs"), Seg("c")>> :> << Rel(<<File("c", "pdf")>>, FALSE) >>)

\* A site without end: every path serves the same page, which links to one
\* more sub-directory n/ and to one file.
Everywhere == <<Seg("*")>>
SiteEndless ==
    (Everywhere :> << Rel(<<Seg("n")>>, TRUE), Rel(<<File("f", "pdf")>>, FALSE) >>)

Sites == {SiteScenario, SiteCycle, SiteIndex, SiteAbsolute, SiteTree, SiteDiamond,
          SiteEndless}

\* the site serves a page at path p; the hrefs of that page
Served(s, p) == p \in DOMAIN s \/ Everywhere \in DOMAIN s
Page(s, p) == IF p \in DOMAIN s THEN s[p] ELSE s[Everywhere]

Roots == { Url("http", Hn, Docs, TRUE, <<>>), Url("http", Hn, Docs, FALSE, <<>>) }


----------------------------------------------------------------------------
(* Settings.allow_ext as build_settings makes it *)

Pdf == <<"pdf">>
Zip == <<"zip">>

\* the default of ALLOWED_EXT in build_settings (dash) and in
\* build_settings_from_env_and_args (us), after parse_allow_ext
DefaultAllow(m) ==
    IF m = "dash"
    THEN {Pdf, <<"php">>, <<"jpg">>, <<"jpeg">>, <<"png">>, Zip, <<"mp4">>,
          <<"mkv">>, <<"avi">>, <<"webm">>, <<"mov">>}
    ELSE {Pdf, <<"txt">>, <<"jpg">>, <<"jpeg">>, <<"png">>, Zip}

\* parse_allow_ext on a comma separated list given as the sequence of its
\* items: the empty items are dropped, the others lower-cased
parse_allow_ext(csv) == {LowerSeq(csv[i]) : i \in {j \in 1..Len(csv) : csv[j] # <<>>}}

\* a command line or environment value that is not given
Unset == <<<<"unset">>>>

\* build_settings: parse_allow_ext(args.allow_ext or os.getenv("ALLOWED_EXT",
\* default)).  An empty --allow-ext is falsy, so the environment is asked.
build_allow_ext(m, arg, env) ==
    IF arg # Unset /\ arg # <<>> THEN parse_allow_ext(arg)
    ELSE IF env # Unset THEN parse_allow_ext(env)
    ELSE DefaultAllow(m)

AllowArgs == {Unset, <<>>, <<Pdf, Zip>>}
AllowEnvs == {Unset, <<>>}

AllowLists(m) == {build_allow_ext(m, a, e) : a \in AllowArgs, e \in AllowEnvs}

----------------------------------------------------------------------------
(* HTTP responses, as the size probes read them.  A header that holds a    *)
(* number is that number; HdrAbsent is a missing header, HdrBad one that   *)
(* str.isdigit() rejects ("-1", "1e3", "bytes 0-0/*") and HdrOdd one that  *)
(* str.isdigit() accepts and int() rejects with ValueError (a superscript  *)
(* digit).                                                                 *)

HdrAbsent == 0 - 1
HdrBad == 0 - 2
HdrOdd == 0 - 3
IsDigits(h) == h >= 0 \/ h = HdrOdd
IntRaises(h) == h = HdrOdd

Sizes == 0..(MaxBytesBound + 1)
HdrValues == {HdrAbsent, HdrBad, HdrOdd} \cup Sizes

NoName == <<>>
CdNames == {NoName, <<"x", ".", "exe">>, <<"noext">>, <<"r", ".", "pdf">>}

\* a HEAD exchange: exc is a transport exception; otherwise the status, the
\* Content-Length, the Content-Type and the Content-Disposition file name
\* (NoName: no header, or a header without "filename=")
HeadResponses ==
    {[exc |-> TRUE, status |-> 0, cl |-> HdrAbsent, ct |-> "", cd |-> NoName]}
    \cup [exc : {FALSE}, status : {200, 404}, cl : HdrValues,
          ct : {"", "text/html", "text/html; charset=utf-8", "application/xhtml+xml",
                "application/zip"},
          cd : CdNames]

\* a GET with Range: bytes=0-0: the status, the total of Content-Range and
\* the Content-Length
RangeResponses ==
    {[exc |-> TRUE, status |-> 0, cr |-> HdrAbsent, cl |-> HdrAbsent]}
    \cup [exc : {FALSE}, status : {200, 206, 404}, cr : HdrValues, cl : HdrValues]

\* What a probe raises inside its try block for a response: a transport
\* exception of session.head / session.get, or the ValueError of int().
\* The empty set: the probe runs to its return statement.
HeadUsErrors(r) ==
    IF r.exc THEN {"ClientConnectionError", "TimeoutError"}
    ELSE IF r.status < 400 /\ IntRaises(r.cl) THEN {"ValueError"}
    ELSE {}

RangeErrors(r) ==
    IF r.exc THEN {"ClientConnectionError", "TimeoutError"}
    ELSE IF r.status \in {200, 206}
            /\ \/ IntRaises(r.cr)
               \/ ~IsDigits(r.cr) /\ IntRaises(r.cl) /\ r.status = 200
         THEN {"ValueError"}
    ELSE {}

HeadInfoErrors(r) ==
    IF r.exc THEN {"ClientConnectionError", "TimeoutError"}
    ELSE IF IntRaises(r.cl) THEN {"ValueError"}
    ELSE {}

\* the "except Exception" of head_content_length, of
\* get_content_length_fallback and of head_info
ProbeCaughtMutant(e) == e = "ValueError"
ProbeCaught(e) == e \in {"ClientConnectionError", "TimeoutError", "ValueError"}

\* what happens at a probe: it runs to its return ("ok"), or one of the
\* exceptions of its response is raised inside its try block
ProbeEvents(errs) == IF errs = {} THEN {"ok"} ELSE errs

\* the probe returns to its caller: it raised nothing, or its handler
\* caught what was raised
ProbeReturns(o) == o = "ok" \/ ProbeCaught(o)

\* the exception o leaves the probe and its callers
ProbeEscapes(o, req) ==
    /\ raised' = o
    /\ fpc' = "raised"
    /\ reqs' = Append(reqs, req)

\* head_content_length (us)
head_content_length(r) ==
    IF HeadUsErrors(r) # {} THEN None
    ELSE IF r.status >= 400 THEN None
    ELSE IF IsDigits(r.cl) THEN r.cl
    ELSE None

\* get_content_length_fallback (us)
get_content_length_fallbackMutant(r) == IF RangeErrors(r) = {} /\ r.status \in {200, 206} /\ IsDigits(r.cl) THEN r.cl ELSE None
get_content_length_fallback(r) ==
    IF RangeErrors(r) # {} THEN None
    ELSE IF r.status \in {200, 206}
    THEN IF IsDigits(r.cr) THEN r.cr
         ELSE IF IsDigits(r.cl) THEN (IF r.status = 200 THEN r.cl ELSE None)
         ELSE None
    ELSE None

\* head_info (dash): the size, whatever the status; (None, "", "") when the
\* try block raised
head_info_size(r) ==
    IF HeadInfoErrors(r) # {} THEN None ELSE IF IsDigits(r.cl) THEN r.cl ELSE None

head_info_ct(r) == IF HeadInfoErrors(r) # {} THEN "" ELSE r.ct
head_info_cd(r) == IF HeadInfoErrors(r) # {} THEN NoName ELSE r.cd

\* the Content-Type values that hold "text/html" or "application/xhtml"
HtmlTypes == {"text/html", "text/html; charset=utf-8", "application/xhtml+xml"}

\* is_probably_html (dash): ("text/html" in ct) or ("application/xhtml" in ct)
is_probably_htmlMutant(r) == TRUE
is_probably_html(r) == head_info_ct(r) \in HtmlTypes

\* no HEAD probe of the root was made
NoProbe == [asked |-> FALSE, exc |-> FALSE, ct |-> ""]

\* the choices of --mode (the us variant has no "list")
Modes(m) == IF m = "dash" THEN {"list", "count", "download"} ELSE {"count", "download"}

\* parse_filename_from_content_disposition(cd) or guess_name_from_url(url),
\* then "file" when that is empty
direct_fname(r, u) ==
    LET n == IF head_info_cd(r) # NoName THEN head_info_cd(r)
             ELSE guess_name_from_url("dash", u)
    IN IF n = <<>> THEN <<"file">> ELSE n

\* the comparison of both limits: "size > max_bytes" at the gate,
\* "downloaded > max_bytes" in the streaming loop
OverMutant(n, cap) == n >= cap
Over(n, cap) == n > cap

\* the size gate: size is not None and size > max_bytes
TooLargeMutant(size) == FALSE
TooLarge(size) == size # None /\ Over(size, max_bytes)

\* if downloaded > max_bytes
ExceedsMutant(n) == n > max_bytes + 1
Exceeds(n) == Over(n, max_bytes)

\* the extension test of download_direct_file:
\* if ext and not is_allowed_ext(ext, settings): return
DirectRejected(ext) == ext # <<>> /\ ~is_allowed_ext(ext, allow_ext)

\* allowed = [f for f in files if is_allowed_ext(f.ext, settings)]
RECURSIVE AllowedOf(_, _)
AllowedOf(fs, allowed) ==
    IF fs = <<>> THEN <<>>
    ELSE IF is_allowed_ext(Head(fs).ext, allowed)
         THEN <<Head(fs)>> \o AllowedOf(Tail(fs), allowed)
    ELSE AllowedOf(Tail(fs), allowed)

\* out_path below out_root: rel_dir / name, rel_dir being out_root joined
\* with path_parts[:-1] when there is more than one part
Dest(fi) ==
    (IF Len(fi.path_parts) > 1 THEN Front(fi.path_parts) ELSE <<>>) \o <<fi.name>>

\* the destination tree is a function from the paths that hold a file to
\* the size of the file
Size(d) == IF d \in DOMAIN disk THEN disk[d] ELSE Absent
SetFile(d, n) == [x \in DOMAIN disk \cup {d} |-> IF x = d THEN n ELSE disk[x]]
NoFiles == [x \in {} |-> 0]

\* rel_dir.mkdir(parents=True, exist_ok=True) raises FileExistsError (or
\* NotADirectoryError) when rel_dir or one of its parents is a file
MkdirFails(d) == \E n \in 1..(Len(d) - 1) : SubSeq(d, 1, n) \in DOMAIN disk
MkdirError == "FileExistsError"

\* out_path.unlink(missing_ok=True), in the overflow branch and in the
\* except branch
UnlinkOverflowMutant(d) == disk
UnlinkOverflow(d) == [x \in DOMAIN disk \ {d} |-> disk[x]]
UnlinkFailed(d) == [x \in DOMAIN disk \ {d} |-> disk[x]]

\* What can be raised at an await of the transfer.  The first three are
\* transport errors (raise_for_status, a reset connection, the session's
\* total timeout); CancelledError is the cancellation of the task.
TransportErrors == {"ClientResponseError", "ClientConnectionError", "TimeoutError"}
StreamErrors == {"ClientConnectionError", "TimeoutError"}
Cancelled == "CancelledError"

\* "except Exception as e": the transport errors derive from Exception,
\* asyncio.CancelledError derives from BaseException
CaughtMutant(e) == e \in {"ClientResponseError", "ClientConnectionError"}
Caught(e) == e \in TransportErrors

\* the state of the download machinery while crawl_directory runs
NoLeaf == [url |-> Url("", "", <<>>, FALSE, <<>>), name |-> <<>>, ext |-> <<>>,
           dest |-> <<>>]

\* main_async once its checks have passed and the mode runs in a session
MainRunning ==
    /\ mpc = "mode"
    /\ tor_proxy = ""
    /\ connector = TRUE
    /\ session = TRUE
    /\ exit_code = None

\* no answer of the server is fixed in advance, mode_size is not running
NoAnswer == [exc |-> TRUE, status |-> 0]

\* the bot of main.py and the gallery handlers are not running
NoJob == [id |-> 0, chat_id |-> 0]

NoSend == [chat |-> 0, data |-> "", sent |-> FALSE, idx |-> 0, ok |-> TRUE]

BotIdle ==
    /\ queue = <<>>
    /\ put = 0
    /\ wpc = "get"
    /\ job = NoJob
    /\ taken = <<>>
    /\ marked = <<>>
    /\ USER_STATES = <<>>
    /\ shown = NoSend

SizeIdle ==
    /\ hresp = NoAnswer
    /\ rresp = NoAnswer
    /\ body = None
    /\ total = 0
    /\ unknown = 0
    /\ sizeLog = <<>>

FetchIdle ==
    /\ max_bytes = 0
    /\ mode = "download"
    /\ probe = NoProbe
    /\ fmode = "dir"
    /\ fpc = "crawl"
    /\ todo = <<>>
    /\ leaf = NoLeaf
    /\ est = None
    /\ downloaded = 0
    /\ pending = 0
    /\ disk = NoFiles
    /\ outcomes = <<>>
    /\ reqs = <<>>
    /\ created = {}
    /\ writing = FALSE
    /\ raised = ""

----------------------------------------------------------------------------
(* crawl_directory *)

Entry(u, d) == [url |-> u, depth |-> d]

\* the root as crawl_directory seeds it: the dash variant appends the "/"
\* before seeding, the us variant seeds the URL as given
SeedUrl(m, r) == IF m = "dash" THEN NormDir(r) ELSE r

\* while q and len(files) < settings.max_files
LoopCondMutant == q # <<>>
LoopCond == q # <<>> /\ Len(files) < max_files

\* if depth > settings.max_depth: continue
TooDeepMutant(d) == FALSE
TooDeep(d) == d > max_depth

\* if cur in visited_dirs: continue
SeenMutant(u) == FALSE
Seen(u) == u \in visited_dirs

\* if len(files) >= settings.max_files: break
QuotaMetMutant == FALSE
QuotaMet == Len(files) >= max_files

\* try: html = await fetch_text(session, cur) / except Exception: continue
CrawlCaughtMutant(e) == e \in {"ClientConnectionError", "TimeoutError"}
CrawlCaught(e) == e \in TransportErrors

\* if depth + 1 <= settings.max_depth, on the depth of the page
DepthAllowsMutant(d) == d + 1 < max_depth
DepthAllows(d) == d + 1 <= max_depth

\* cur, depth = q.pop(0): the frontier loses its head
DequeueMutant(s) == s
Dequeue(s) == Tail(s)

\* q.append((link, depth + 1)): the frontier grows at its end
EnqueueMutant(s, e) == <<e>> \o s
Enqueue(s, e) == Append(s, e)

\* u.path.rstrip("/").endswith("..") (dash), link.rstrip("/").endswith("..")
\* (us: on the whole link; no query of the model ends with "..")
IsParentLink(m, u) ==
    IF m = "us" /\ u.query # <<>> THEN FALSE
    ELSE u.path # <<>> /\ EndsWithDotDot(Last(u.path))

\* what the body of "for link in links" does with one link:
\* "skip" (continue), "dir" (enqueue if the depth allows) or "file" (append)
LinkClass(m, u) ==
    IF Lower(u.netloc) # host THEN "skip"
    ELSE IF IsParentLink(m, u) THEN "skip"
    ELSE IF m = "us" /\ PathEmpty(u) THEN "skip"
    ELSE IF looks_like_directory_path(u) THEN "dir"
    ELSE IF m = "dash" /\ norm_ext(guess_name_from_url(m, u)) = <<>> THEN "skip"
    ELSE "file"

CrawlInit ==
    /\ impl \in {"dash", "us"}
    /\ site \in Sites
    /\ root \in Roots
    /\ max_files \in 0..MaxFilesBound
    /\ max_depth \in -1..MaxDepthBound
    /\ allow_ext = {Pdf, Zip}
    /\ cpc = "loop"
    /\ host = Lower(root.netloc)
    /\ q = <<Entry(SeedUrl(impl, root), 0)>>
    /\ visited_dirs = {}
    /\ files = <<>>
    /\ cur = Entry(root, 0)
    /\ links = <<>>
    /\ fetchLog = <<>>
    /\ qLog = <<Entry(SeedUrl(impl, root), 0)>>
    /\ FetchIdle
    /\ MainRunning
    /\ SizeIdle
    /\ BotIdle

\* cur, depth = q.pop(0) up to visited_dirs.add(cur)
CrawlPop ==
    /\ cpc = "loop"
    /\ LoopCond
    /\ q' = Dequeue(q)
    /\ LET e == Head(q)
           c == NormDir(e.url)
       IN IF TooDeep(e.depth) \/ Seen(c)
          THEN UNCHANGED <<cpc, visited_dirs, cur>>
          ELSE /\ visited_dirs' = visited_dirs \cup {c}
               /\ cur' = Entry(c, e.depth)
               /\ cpc' = "fetch"
    /\ UNCHANGED <<botVars, chatVars, serverVars, sizeVars, mainVars, fetchVars, impl, site, root, max_files, max_depth, allow_ext, host,
                   files, links, fetchLog, qLog>>

\* html = await fetch_text(session, cur); links = parse_links(html, cur)
CrawlFetchOk ==
    /\ cpc = "fetch"
    /\ Served(site, cur.url.path)
    /\ links' = parse_links(Page(site, cur.url.path), cur.url)
    /\ fetchLog' = Append(fetchLog, [url |-> cur.url, depth |-> cur.depth, ok |-> TRUE])
    /\ cpc' = "links"
    /\ UNCHANGED <<botVars, chatVars, serverVars, sizeVars, mainVars, fetchVars, impl, site, root, max_files, max_depth, allow_ext, host, q,
                   visited_dirs, files, cur, qLog>>

\* fetch_text raises (raise_for_status on a non-success status, a network
\* error, the timeout): "except Exception: continue" if it catches the
\* exception, otherwise the exception leaves crawl_directory
CrawlFetchFail ==
    /\ cpc = "fetch"
    /\ fetchLog' = Append(fetchLog, [url |-> cur.url, depth |-> cur.depth, ok |-> FALSE])
    /\ \E e \in TransportErrors : cpc' = IF CrawlCaught(e) THEN "loop" ELSE "raised"
    /\ UNCHANGED <<botVars, chatVars, serverVars, sizeVars, mainVars, fetchVars, impl, site, root, max_files, max_depth, allow_ext, host, q,
                   visited_dirs, files, cur, links, qLog>>

\* one pass of "for link in links" that does not break
CrawlLink ==
    /\ cpc = "links"
    /\ links # <<>>
    /\ ~QuotaMet
    /\ links' = Tail(links)
    /\ LET u == Head(links)
           k == LinkClass(impl, u)
       IN /\ IF k = "dir" /\ DepthAllows(cur.depth)
             THEN /\ q' = Enqueue(q, Entry(u, cur.depth + 1))
                  /\ qLog' = Append(qLog, Entry(u, cur.depth + 1))
             ELSE UNCHANGED <<q, qLog>>
          /\ IF k = "file"
             THEN files' = Append(files, FileItem(impl, u))
             ELSE UNCHANGED files
    /\ UNCHANGED <<botVars, chatVars, serverVars, sizeVars, mainVars, fetchVars, impl, site, root, max_files, max_depth, allow_ext, cpc, host,
                   visited_dirs, cur, fetchLog>>

\* the for loop ends: no link is left, or the quota is met (break)
CrawlLinksEnd ==
    /\ cpc = "links"
    /\ links = <<>> \/ QuotaMet
    /\ links' = <<>>
    /\ cpc' = "loop"
    /\ UNCHANGED <<botVars, chatVars, serverVars, sizeVars, mainVars, fetchVars, impl, site, root, max_files, max_depth, allow_ext, host, q,
                   visited_dirs, files, cur, fetchLog, qLog>>

\* the while condition fails: return files
CrawlReturn ==
    /\ cpc = "loop"
    /\ ~LoopCond
    /\ cpc' = "done"
    /\ UNCHANGED <<botVars, chatVars, serverVars, sizeVars, mainVars, fetchVars, impl, site, root, max_files, max_depth, allow_ext, host, q,
                   visited_dirs, files, cur, links, fetchLog, qLog>>

CrawlNext ==
    \/ CrawlPop
    \/ CrawlFetchOk
    \/ CrawlFetchFail
    \/ CrawlLink
    \/ CrawlLinksEnd
    \/ CrawlReturn

SpecCrawl == CrawlInit /\ [][CrawlNext]_vars

\* crawl_directory is one coroutine: after each step it takes the next one,
\* and fetch_text returns or raises within the session's timeout
SpecCrawlLive == CrawlInit /\ [][CrawlNext]_vars /\ WF_vars(CrawlNext)

----------------------------------------------------------------------------
(* mode_download: the loop over the allowed leaves (download_one in the us *)
(* variant, the loop body in the dash variant) and download_direct_file    *)

LeafUrl(segs, qy) == Url("http", Hn, segs, FALSE, qy)
Ua == LeafUrl(<<Seg("docs"), File("a", "pdf")>>, <<>>)
Uav == LeafUrl(<<Seg("docs"), File("a", "pdf")>>, <<"v=1">>)
Ue == LeafUrl(<<Seg("docs"), File("c", "exe")>>, <<>>)
Ub == LeafUrl(<<Seg("docs"), Seg("sub"), File("b", "zip")>>, <<>>)
Un == LeafUrl(<<Seg("docs"), Seg("download")>>, <<>>)
Uy == LeafUrl(<<Seg("docs"), File("y", "PDF")>>, <<>>)
Unb == LeafUrl(<<Seg("docs"), File("a", "pdf"), File("b", "zip")>>, <<>>)

\* what crawl_directory returned: the leaves of these links, in order.  In
\* the last list the site serves a file /docs/a.pdf and a directory
\* /docs/a.pdf/ that holds b.zip.
FileUrlLists == { <<Ua, Uav>>, <<Ue, Ua, Ub>>, <<Un, Uy>>, <<Ua, Unb>> }

\* the FileItems crawl_directory makes of a list of leaf links: the dash
\* variant drops a name without extension
RECURSIVE CrawlResult(_, _)
CrawlResult(m, urls) ==
    IF urls = <<>> THEN <<>>
    ELSE IF m = "dash" /\ norm_ext(guess_name_from_url(m, Head(urls))) = <<>>
         THEN CrawlResult(m, Tail(urls))
    ELSE <<FileItem(m, Head(urls))>> \o CrawlResult(m, Tail(urls))

\* the roots of a download: a directory, and three URLs without trailing "/"
FetchRoots == { Url("http", Hn, Docs, TRUE, <<>>), Un, Ue, Ua }

Outcome(k, n, e) ==
    [url |-> leaf.url, dest |-> leaf.dest, kind |-> k, bytes |-> n, detail |-> e]

\* where a fetch returns to: the loop of mode_download, or the caller of
\* download_direct_file
Ret == IF fmode = "direct" THEN "done" ELSE "idle"

FetchInit ==
    /\ impl \in {"dash", "us"}
    /\ site = SiteScenario
    /\ root \in FetchRoots
    /\ max_files = MaxFilesBound
    /\ max_depth = MaxDepthBound
    /\ allow_ext \in AllowLists(impl)
    /\ cpc = "notcalled"
    /\ host = Lower(root.netloc)
    /\ q = <<>>
    /\ visited_dirs = {}
    /\ files = <<>>
    /\ cur = Entry(root, 0)
    /\ links = <<>>
    /\ fetchLog = <<>>
    /\ qLog = <<>>
    /\ max_bytes \in 0..MaxBytesBound
    /\ mode \in Modes(impl)
    /\ probe = NoProbe
    /\ fmode = "dir"
    /\ fpc = "start"
    /\ todo = <<>>
    /\ leaf = NoLeaf
    /\ est = None
    /\ downloaded = 0
    /\ pending = 0
    /\ disk = NoFiles
    /\ outcomes = <<>>
    /\ reqs = <<>>
    /\ created = {}
    /\ writing = FALSE
    /\ raised = ""
    /\ MainRunning
    /\ SizeIdle
    /\ BotIdle

\* the directory branch of a mode: files = await crawl_directory(...); the
\* crawl is the one of SpecCrawl and returns one of the results of
\* FileUrlLists.  mode_download then goes through the allowed leaves,
\* mode_size of the us variant through all the leaves; the other modes
\* (and mode_size of the dash variant) report and return.
DirectoryBranch ==
    /\ cpc' = "done"
    /\ \E l \in FileUrlLists :
          /\ files' = CrawlResult(impl, l)
          /\ todo' = IF mode = "download"
                     THEN AllowedOf(CrawlResult(impl, l), allow_ext)
                     ELSE IF mode = "size" /\ impl = "us" THEN CrawlResult(impl, l)
                     ELSE <<>>
          /\ fpc' = IF mode = "download" THEN "idle"
                    ELSE IF mode = "size" /\ impl = "us" /\ CrawlResult(impl, l) # <<>>
                    THEN "size"
                    ELSE "done"

\* the part of the crawl state a call of crawl_directory leaves alone here
CrawlRest == <<impl, site, root, max_files, max_depth, allow_ext, host, q,
               visited_dirs, cur, links, fetchLog, qLog>>

\* a mode on a root that ends with "/" (and the us variant on any root): no
\* probe, the directory branch
ModeDirectory ==
    /\ fpc = "start"
    /\ impl = "us" \/ EndsWithSlash(root)
    /\ DirectoryBranch
    /\ UNCHANGED <<botVars, chatVars, serverVars, sizeVars, mainVars, CrawlRest, max_bytes, mode, probe, fmode, leaf, est, downloaded,
                   pending, disk, outcomes, reqs, created, writing, raised>>

\* dash: if not root_url.endswith("/") and not await is_probably_html(...):
\* the direct-file branch (download_direct_file in mode_download, a message
\* in the other modes); otherwise the directory branch
ModeProbe ==
    /\ fpc = "start"
    /\ impl = "dash" /\ ~EndsWithSlash(root)
    /\ \E r \in HeadResponses :
          \E o \in ProbeEvents(HeadInfoErrors(r)) :
             IF ProbeReturns(o)
             THEN /\ probe' = [asked |-> TRUE, exc |-> o # "ok", ct |-> head_info_ct(r)]
                  /\ UNCHANGED <<raised, reqs>>
                  /\ IF is_probably_html(r)
                     THEN /\ DirectoryBranch
                          /\ UNCHANGED <<fmode, leaf>>
                     ELSE /\ fmode' = "direct"
                          /\ leaf' = [NoLeaf EXCEPT !.url = root]
                          /\ fpc' = IF mode = "download" THEN "head"
                                    ELSE IF mode = "size" THEN "sizedirect"
                                    ELSE "done"
                          /\ UNCHANGED <<todo, files, cpc>>
             ELSE /\ ProbeEscapes(o, "HEAD raised")
                  /\ UNCHANGED <<probe, fmode, leaf, todo, files, cpc>>
    /\ UNCHANGED <<botVars, chatVars, serverVars, sizeVars, mainVars, CrawlRest, max_bytes, mode, est, downloaded, pending, disk,
                   outcomes, created, writing>>

\* for fi in allowed: the next leaf.  The dash variant makes the directory
\* of the destination first, outside any try block.
FetchBegin ==
    /\ fpc = "idle"
    /\ todo # <<>>
    /\ leaf' = [url |-> Head(todo).url, name |-> Head(todo).name,
                ext |-> Head(todo).ext, dest |-> Dest(Head(todo))]
    /\ todo' = Tail(todo)
    /\ est' = None
    /\ downloaded' = 0
    /\ pending' = 0
    /\ reqs' = <<>>
    /\ writing' = FALSE
    /\ IF impl = "dash" /\ MkdirFails(Dest(Head(todo)))
       THEN /\ raised' = MkdirError
            /\ fpc' = "raised"
       ELSE /\ fpc' = "head"
            /\ UNCHANGED raised
    /\ UNCHANGED <<botVars, chatVars, serverVars, sizeVars, mainVars, crawlVars, max_bytes, mode, probe, fmode, disk, outcomes, created>>

\* us: size = await head_content_length(session, url), the first half of
\* estimate_size_bytes
HeadUsOn(r) ==
    /\ fpc = "head"
    /\ impl = "us"
    /\    \E o \in ProbeEvents(HeadUsErrors(r)) :
             IF ProbeReturns(o)
             THEN /\ est' = head_content_length(r)
                  /\ fpc' = IF head_content_length(r) # None THEN "gate" ELSE "range"
                  /\ reqs' = Append(reqs, IF o = "ok" THEN "HEAD" ELSE "HEAD raised")
                  /\ UNCHANGED raised
             ELSE /\ ProbeEscapes(o, "HEAD raised")
                  /\ UNCHANGED est
    /\ UNCHANGED <<botVars, chatVars, serverVars, sizeVars, mainVars, crawlVars, max_bytes, mode, probe, fmode, todo, leaf, downloaded,
                   pending, disk, outcomes, created, writing>>

HeadUs == \E r \in HeadResponses : HeadUsOn(r)

\* us: return await get_content_length_fallback(session, url)
RangeUsOn(r) ==
    /\ fpc = "range"
    /\    \E o \in ProbeEvents(RangeErrors(r)) :
             IF ProbeReturns(o)
             THEN /\ est' = get_content_length_fallback(r)
                  /\ fpc' = "gate"
                  /\ reqs' = Append(reqs, IF o = "ok" THEN "RANGE" ELSE "RANGE raised")
                  /\ UNCHANGED raised
             ELSE /\ ProbeEscapes(o, "RANGE raised")
                  /\ UNCHANGED est
    /\ UNCHANGED <<botVars, chatVars, serverVars, sizeVars, mainVars, crawlVars, max_bytes, mode, probe, fmode, todo, leaf, downloaded,
                   pending, disk, outcomes, created, writing>>

RangeUs == \E r \in RangeResponses : RangeUsOn(r)

\* dash, directory: size, _, _ = await head_info(session, fi.url)
HeadDashOn(r) ==
    /\ fpc = "head"
    /\ impl = "dash" /\ fmode = "dir"
    /\    \E o \in ProbeEvents(HeadInfoErrors(r)) :
             IF ProbeReturns(o)
             THEN /\ est' = head_info_size(r)
                  /\ fpc' = "gate"
                  /\ reqs' = Append(reqs, IF o = "ok" THEN "HEAD" ELSE "HEAD raised")
                  /\ UNCHANGED raised
             ELSE /\ ProbeEscapes(o, "HEAD raised")
                  /\ UNCHANGED est
    /\ UNCHANGED <<botVars, chatVars, serverVars, sizeVars, mainVars, crawlVars, max_bytes, mode, probe, fmode, todo, leaf, downloaded,
                   pending, disk, outcomes, created, writing>>

HeadDash == \E r \in HeadResponses : HeadDashOn(r)

\* download_direct_file up to the extension test
HeadDirectOn(r) ==
    /\ fpc = "head"
    /\ fmode = "direct"
    /\    \E o \in ProbeEvents(HeadInfoErrors(r)) :
             LET fname == direct_fname(r, root)
                 l == [url |-> root, name |-> fname, ext |-> norm_ext(fname),
                       dest |-> <<fname>>]
             IN IF ProbeReturns(o)
                THEN /\ est' = head_info_size(r)
                     /\ leaf' = l
                     /\ reqs' = Append(reqs, IF o = "ok" THEN "HEAD" ELSE "HEAD raised")
                     /\ UNCHANGED raised
                     /\ IF DirectRejected(l.ext)
                        THEN /\ outcomes' = Append(outcomes,
                                    [url |-> l.url, dest |-> l.dest, kind |-> "REJECTED",
                                     bytes |-> 0, detail |-> ""])
                             /\ fpc' = "done"
                        ELSE /\ fpc' = "gate"
                             /\ UNCHANGED outcomes
                ELSE /\ ProbeEscapes(o, "HEAD raised")
                     /\ UNCHANGED <<est, leaf, outcomes>>
    /\ UNCHANGED <<botVars, chatVars, serverVars, sizeVars, mainVars, crawlVars, max_bytes, mode, probe, fmode, todo, downloaded, pending,
                   disk, created, writing>>

HeadDirect == \E r \in HeadResponses : HeadDirectOn(r)

\* the size gate skips the leaf
GateSkip ==
    /\ fpc = "gate"
    /\ TooLarge(est)
    /\ outcomes' = Append(outcomes, Outcome("SKIP_LARGE", 0, ""))
    /\ fpc' = Ret
    /\ UNCHANGED <<botVars, chatVars, serverVars, sizeVars, mainVars, crawlVars, max_bytes, mode, probe, fmode, todo, leaf, est, downloaded,
                   pending, disk, reqs, created, writing, raised>>

\* the size gate lets the leaf through.  The us variant makes the directory
\* of the destination now, outside the try block of download_one.
GatePass ==
    /\ fpc = "gate"
    /\ ~TooLarge(est)
    /\ IF impl = "us" /\ MkdirFails(leaf.dest)
       THEN /\ raised' = MkdirError
            /\ fpc' = "raised"
       ELSE /\ fpc' = "get"
            /\ UNCHANGED raised
    /\ UNCHANGED <<botVars, chatVars, serverVars, sizeVars, mainVars, crawlVars, max_bytes, mode, probe, fmode, todo, leaf, est, downloaded,
                   pending, disk, outcomes, reqs, created, writing>>

\* an exception e at an await inside the try block: the except branch
\* unlinks and reports the failure if it catches e, otherwise e leaves
Raise(e) ==
    IF Caught(e)
    THEN /\ disk' = UnlinkFailed(leaf.dest)
         /\ outcomes' = Append(outcomes, Outcome("FAIL", 0, e))
         /\ fpc' = Ret
         /\ UNCHANGED raised
    ELSE /\ raised' = e
         /\ fpc' = "raised"
         /\ UNCHANGED <<disk, outcomes>>

\* session.get answers with a success status; aiofiles.open(out_path, "wb")
GetOk ==
    /\ fpc = "get"
    /\ reqs' = Append(reqs, "GET")
    /\ disk' = SetFile(leaf.dest, 0)
    /\ created' = created \cup {leaf.dest}
    /\ writing' = TRUE
    /\ fpc' = "stream"
    /\ UNCHANGED <<botVars, chatVars, serverVars, sizeVars, mainVars, crawlVars, max_bytes, mode, probe, fmode, todo, leaf, est, downloaded,
                   pending, outcomes, raised>>

\* session.get or raise_for_status raises, or the task is cancelled there
GetRaises ==
    /\ fpc = "get"
    /\ reqs' = Append(reqs, "GET")
    /\ \E e \in TransportErrors \cup {Cancelled} : Raise(e)
    /\ UNCHANGED <<botVars, chatVars, serverVars, sizeVars, mainVars, crawlVars, max_bytes, mode, probe, fmode, todo, leaf, est, downloaded,
                   pending, created, writing>>

\* downloaded += len(chunk)
CountMutant(d, n) == d + 1
Count(d, n) == d + n

\* the bytes of the body not yet received: every byte received so far has
\* been counted; any number when the length of the body is not fixed
Remaining == IF body = None THEN MaxChunk ELSE body - downloaded

\* after the count: "if downloaded > max_bytes" closes and unlinks the file
\* and returns, otherwise the chunk goes to f.write
AfterCountMutant(n) == "write"
AfterCount(n) == IF Exceeds(n) THEN "overflow" ELSE "write"

\* async for chunk in resp.content.iter_chunked(...): one chunk arrives;
\* an empty chunk is passed over, otherwise downloaded += len(chunk)
RecvChunk ==
    /\ fpc = "stream"
    /\ \E n \in 0..MaxChunk :
          /\ n <= Remaining
          /\ IF n = 0 THEN UNCHANGED <<downloaded, pending, fpc>>
             ELSE /\ downloaded' = Count(downloaded, n)
                  /\ pending' = n
                  /\ fpc' = AfterCount(Count(downloaded, n))
    /\ UNCHANGED <<botVars, chatVars, serverVars, sizeVars, mainVars, crawlVars, max_bytes, mode, probe, fmode, todo, leaf, est, disk, outcomes,
                   reqs, created, writing, raised>>

\* await f.write(chunk)
WriteChunk ==
    /\ fpc = "write"
    /\ disk' = SetFile(leaf.dest, Size(leaf.dest) + pending)
    /\ pending' = 0
    /\ fpc' = "stream"
    /\ UNCHANGED <<botVars, chatVars, serverVars, sizeVars, mainVars, crawlVars, max_bytes, mode, probe, fmode, todo, leaf, est, downloaded,
                   outcomes, reqs, created, writing, raised>>

\* downloaded > max_bytes: the file is closed and unlinked, the leaf skipped;
\* download_direct_file reports the count it stopped at
Overflow ==
    /\ fpc = "overflow"
    /\ disk' = UnlinkOverflow(leaf.dest)
    /\ outcomes' = Append(outcomes,
            Outcome("SKIP_EXCEEDED", IF fmode = "direct" THEN downloaded ELSE 0, ""))
    /\ fpc' = Ret
    /\ UNCHANGED <<botVars, chatVars, serverVars, sizeVars, mainVars, crawlVars, max_bytes, mode, probe, fmode, todo, leaf, est, downloaded,
                   pending, reqs, created, writing, raised>>

\* the body ends: OK with the bytes counted
StreamEnd ==
    /\ fpc = "stream"
    /\ body = None \/ Remaining = 0
    /\ outcomes' = Append(outcomes, Outcome("OK", downloaded, ""))
    /\ fpc' = Ret
    /\ UNCHANGED <<botVars, chatVars, serverVars, sizeVars, mainVars, crawlVars, max_bytes, mode, probe, fmode, todo, leaf, est, downloaded,
                   pending, disk, reqs, created, writing, raised>>

\* the transfer breaks while a chunk is awaited, or the task is cancelled
StreamRaises ==
    /\ fpc = "stream"
    /\ \E e \in StreamErrors \cup {Cancelled} : Raise(e)
    /\ UNCHANGED <<botVars, chatVars, serverVars, sizeVars, mainVars, crawlVars, max_bytes, mode, probe, fmode, todo, leaf, est, downloaded,
                   pending, reqs, created, writing>>

\* the task is cancelled at one of the other awaits: the HEAD and ranged GET
\* probes (their own "except Exception" does not catch it either),
\* f.write(chunk), and the close of the file on overflow
CancelAtAwait ==
    /\ fpc \in {"head", "range", "write", "overflow"}
    /\ raised' = Cancelled
    /\ fpc' = "raised"
    /\ UNCHANGED <<botVars, chatVars, serverVars, sizeVars, mainVars, crawlVars, max_bytes, mode, probe, fmode, todo, leaf, est, downloaded,
                   pending, disk, outcomes, reqs, created, writing>>

\* the loop over the allowed leaves is over: the summary is returned
ModeReturn ==
    /\ fpc = "idle"
    /\ todo = <<>>
    /\ fpc' = "done"
    /\ UNCHANGED <<botVars, chatVars, serverVars, sizeVars, mainVars, crawlVars, max_bytes, mode, probe, fmode, todo, leaf, est, downloaded,
                   pending, disk, outcomes, reqs, created, writing, raised>>

FetchNext ==
    \/ ModeDirectory
    \/ ModeProbe
    \/ FetchBegin
    \/ HeadUs
    \/ RangeUs
    \/ HeadDash
    \/ HeadDirect
    \/ GateSkip
    \/ GatePass
    \/ GetOk
    \/ GetRaises
    \/ RecvChunk
    \/ WriteChunk
    \/ Overflow
    \/ StreamEnd
    \/ StreamRaises
    \/ CancelAtAwait
    \/ ModeReturn

SpecFetch == FetchInit /\ [][FetchNext]_vars

----------------------------------------------------------------------------
(* main_async: the checks before a mode runs *)

\* what ONION_RE reads of a host: the length of the label before ".onion",
\* whether the label stays inside [a-z2-7] (re.I), the top-level domain and
\* whether a port follows
HostParts(n) ==
    CASE n \in {"h.onion", "H.onion"} ->
            [len |-> 16, base32 |-> TRUE, tld |-> "onion", port |-> FALSE]
      [] n = "v3.onion" ->
            [len |-> 56, base32 |-> TRUE, tld |-> "onion", port |-> FALSE]
      [] n = "long.onion" ->
            [len |-> 57, base32 |-> TRUE, tld |-> "onion", port |-> FALSE]
      [] n = "short.onion" ->
            [len |-> 15, base32 |-> TRUE, tld |-> "onion", port |-> FALSE]
      [] n = "h189.onion" ->
            [len |-> 16, base32 |-> FALSE, tld |-> "onion", port |-> FALSE]
      [] n = "h.onion:8080" ->
            [len |-> 16, base32 |-> TRUE, tld |-> "onion", port |-> TRUE]
      [] OTHER ->
            [len |-> 7, base32 |-> TRUE, tld |-> "com", port |-> FALSE]

\* is_onion_url: ONION_RE = ^https?://[a-z2-7]{16,56}\.onion(?:/.*)?$ on the
\* stripped URL; after ".onion" comes the end or a "/"
is_onion_urlMutant(u) == TRUE
is_onion_url(u) ==
    /\ u.scheme \in {"http", "https"}
    /\ HostParts(u.netloc).len \in 16..56
    /\ HostParts(u.netloc).base32
    /\ HostParts(u.netloc).tld = "onion"
    /\ ~HostParts(u.netloc).port
    /\ PathEmpty(u) => u.query = <<>>

\* the --url values ONION_RE accepts, and those it rejects
GoodRoots ==
    { Url("http", Hn, Docs, TRUE, <<>>),
      Url("https", Hn, <<>>, FALSE, <<>>),
      Url("http", "H.onion", Docs, FALSE, <<>>),
      Url("http", "v3.onion", Docs, TRUE, <<>>) }

BadRoots ==
    { Url("ftp", Hn, Docs, TRUE, <<>>),
      Url("http", "example.com", Docs, TRUE, <<>>),
      Url("http", "short.onion", Docs, TRUE, <<>>),
      Url("http", "long.onion", Docs, TRUE, <<>>),
      Url("http", "h189.onion", Docs, TRUE, <<>>),
      Url("http", "h.onion:8080", Docs, TRUE, <<>>),
      Url("https", Hn, <<>>, FALSE, <<"q=1">>) }

\* --tor-proxy or TOR_PROXY as given: absent, blank, and two proxy URLs
Socks5h == "socks5h://127.0.0.1:9050"
Socks5 == "socks5://127.0.0.1:9050"
ProxyArgs == {"", "   ", Socks5h, Socks5}

\* build_settings: tor_proxy = (args.tor_proxy or os.getenv(...)).strip()
settings_tor_proxy(raw) == IF raw = "   " THEN "" ELSE raw

\* normalize_proxy (dash): strip, then socks5h:// becomes socks5://
normalize_proxy(p) ==
    IF p = "   " THEN "" ELSE IF p = Socks5h THEN Socks5 ELSE p

\* the proxy test of main_async and of make_session:
\* normalize_proxy(settings.tor_proxy) (dash), settings.tor_proxy (us)
ProxySet(m, raw) ==
    IF m = "dash" THEN normalize_proxy(settings_tor_proxy(raw)) # ""
    ELSE settings_tor_proxy(raw) # ""

\* the first request of a mode: the dash modes probe the root with HEAD,
\* the us modes start with the GET of crawl_directory
FirstRequest(m) == IF m = "dash" THEN "HEAD" ELSE "GET"

MainInit ==
    /\ impl \in {"dash", "us"}
    /\ site = SiteScenario
    /\ root \in GoodRoots \cup BadRoots
    /\ max_files = MaxFilesBound
    /\ max_depth = MaxDepthBound
    /\ allow_ext = {Pdf, Zip}
    /\ cpc = "notcalled"
    /\ host = ""
    /\ q = <<>>
    /\ visited_dirs = {}
    /\ files = <<>>
    /\ cur = Entry(root, 0)
    /\ links = <<>>
    /\ fetchLog = <<>>
    /\ qLog = <<>>
    /\ max_bytes = MaxBytesBound
    /\ mode \in Modes(impl)
    /\ probe = NoProbe
    /\ fmode = "dir"
    /\ fpc = "start"
    /\ todo = <<>>
    /\ leaf = NoLeaf
    /\ est = None
    /\ downloaded = 0
    /\ pending = 0
    /\ disk = NoFiles
    /\ outcomes = <<>>
    /\ reqs = <<>>
    /\ created = {}
    /\ writing = FALSE
    /\ raised = ""
    /\ mpc = "check_url"
    /\ tor_proxy \in ProxyArgs
    /\ connector \in BOOLEAN
    /\ session = FALSE
    /\ exit_code = None
    /\ SizeIdle
    /\ BotIdle

\* if not is_onion_url(args.url): ... return 2
MainCheckUrl ==
    /\ mpc = "check_url"
    /\ IF ~is_onion_url(root)
       THEN mpc' = "exit" /\ exit_code' = 2
       ELSE mpc' = "settings" /\ UNCHANGED exit_code
    /\ UNCHANGED <<botVars, chatVars, serverVars, sizeVars, crawlVars, fetchVars, tor_proxy, connector, session>>

\* settings = build_settings(args), whose int(...) raises ValueError on a
\* value that is no number: the exception leaves main_async and the
\* interpreter exits with 1; then the proxy test, return 3
MainCheckProxy ==
    /\ mpc = "settings"
    /\ \E parsed \in BOOLEAN :
          IF ~parsed
          THEN mpc' = "exit" /\ exit_code' = 1 /\ raised' = "ValueError"
          ELSE /\ UNCHANGED raised
               /\ IF ProxySet(impl, tor_proxy) /\ ~connector
                  THEN mpc' = "exit" /\ exit_code' = 3
                  ELSE mpc' = "mode" /\ UNCHANGED exit_code
    /\ UNCHANGED <<botVars, chatVars, serverVars, sizeVars, crawlVars, max_bytes, mode, probe, fmode, fpc, todo, leaf, est,
                   downloaded, pending, disk, outcomes, reqs, created, writing,
                   tor_proxy, connector, session>>

\* make_session, at the entry of the mode: RuntimeError when a proxy is set
\* and ProxyConnector is None, caught by main_async (return 1)
MainSession ==
    /\ mpc = "mode"
    /\ ~session
    /\ IF ProxySet(impl, tor_proxy) /\ ~connector
       THEN /\ mpc' = "exit" /\ exit_code' = 1 /\ raised' = "RuntimeError"
            /\ UNCHANGED session
       ELSE session' = TRUE /\ UNCHANGED <<mpc, exit_code, raised>>
    /\ UNCHANGED <<botVars, chatVars, serverVars, sizeVars, crawlVars, max_bytes, mode, probe, fmode, fpc, todo, leaf, est,
                   downloaded, pending, disk, outcomes, reqs, created, writing,
                   tor_proxy, connector>>

\* the mode sends its first request; crawl_directory (us) first raises
\* ValueError on a root that is no onion URL
MainRequest ==
    /\ mpc = "mode"
    /\ session
    /\ reqs = <<>>
    /\ IF impl = "us" /\ ~is_onion_url(root)
       THEN /\ mpc' = "exit" /\ exit_code' = 1 /\ raised' = "ValueError"
            /\ UNCHANGED reqs
       ELSE reqs' = <<FirstRequest(impl)>> /\ UNCHANGED <<mpc, exit_code, raised>>
    /\ UNCHANGED <<botVars, chatVars, serverVars, sizeVars, crawlVars, max_bytes, mode, probe, fmode, fpc, todo, leaf, est,
                   downloaded, pending, disk, outcomes, created, writing,
                   tor_proxy, connector, session>>

\* the mode returns (print(out); return 0) or raises (return 1)
MainReturn ==
    /\ mpc = "mode"
    /\ reqs # <<>>
    /\ \E code \in {0, 1} :
          /\ exit_code' = code
          /\ raised' = IF code = 1 THEN "ClientConnectionError" ELSE raised
    /\ mpc' = "exit"
    /\ UNCHANGED <<botVars, chatVars, serverVars, sizeVars, crawlVars, max_bytes, mode, probe, fmode, fpc, todo, leaf, est,
                   downloaded, pending, disk, outcomes, reqs, created, writing,
                   tor_proxy, connector, session>>

MainNext ==
    \/ MainCheckUrl
    \/ MainCheckProxy
    \/ MainSession
    \/ MainRequest
    \/ MainReturn

SpecMain == MainInit /\ [][MainNext]_vars

----------------------------------------------------------------------------
(* The size estimate of one leaf and the gate, for every answer of the  *)
(* server: the HEAD and the ranged GET answers are fixed at the start.   *)

\* for fi in allowed: the first leaf, a.pdf, up to the size estimate
EstimateInit ==
    /\ impl \in {"dash", "us"}
    /\ site = SiteScenario
    /\ root = Url("http", Hn, Docs, TRUE, <<>>)
    /\ max_files = MaxFilesBound
    /\ max_depth = MaxDepthBound
    /\ allow_ext = {Pdf, Zip}
    /\ cpc = "done"
    /\ host = Lower(root.netloc)
    /\ q = <<>>
    /\ visited_dirs = {}
    /\ files = CrawlResult(impl, <<Ua>>)
    /\ cur = Entry(root, 0)
    /\ links = <<>>
    /\ fetchLog = <<>>
    /\ qLog = <<>>
    /\ max_bytes \in 0..MaxBytesBound
    /\ mode = "download"
    /\ probe = NoProbe
    /\ fmode = "dir"
    /\ fpc = "head"
    /\ todo = <<>>
    /\ leaf = [url |-> Ua, name |-> FileItem(impl, Ua).name,
               ext |-> FileItem(impl, Ua).ext, dest |-> Dest(FileItem(impl, Ua))]
    /\ est = None
    /\ downloaded = 0
    /\ pending = 0
    /\ disk = NoFiles
    /\ outcomes = <<>>
    /\ reqs = <<>>
    /\ created = {}
    /\ writing = FALSE
    /\ raised = ""
    /\ MainRunning
    /\ hresp \in {r \in HeadResponses : r.ct = "" /\ r.cd = NoName}
    /\ rresp \in RangeResponses
    /\ body = None
    /\ total = 0
    /\ unknown = 0
    /\ sizeLog = <<>>
    /\ BotIdle

EstimateNext ==
    \/ HeadUsOn(hresp)
    \/ RangeUsOn(rresp)
    \/ HeadDashOn(hresp)
    \/ GateSkip
    \/ GatePass

SpecEstimate == EstimateInit /\ [][EstimateNext]_vars

----------------------------------------------------------------------------
(* The transfer of one body of a given length, in every way the server  *)
(* can cut it into chunks: the leaf a.pdf has passed the size gate with  *)
(* its size unknown.                                                     *)

TransferInit ==
    /\ impl \in {"dash", "us"}
    /\ fmode \in IF impl = "dash" THEN {"dir", "direct"} ELSE {"dir"}
    /\ site = SiteScenario
    /\ root = IF fmode = "dir" THEN Url("http", Hn, Docs, TRUE, <<>>) ELSE Ua
    /\ max_files = MaxFilesBound
    /\ max_depth = MaxDepthBound
    /\ allow_ext = {Pdf, Zip}
    /\ cpc = IF fmode = "dir" THEN "done" ELSE "notcalled"
    /\ host = Lower(root.netloc)
    /\ q = <<>>
    /\ visited_dirs = {}
    /\ files = IF fmode = "dir" THEN CrawlResult(impl, <<Ua>>) ELSE <<>>
    /\ cur = Entry(root, 0)
    /\ links = <<>>
    /\ fetchLog = <<>>
    /\ qLog = <<>>
    /\ max_bytes \in 0..(MaxBytesBound + 1)
    /\ mode = "download"
    /\ probe = IF fmode = "dir" THEN NoProbe
               ELSE [asked |-> TRUE, exc |-> FALSE, ct |-> "application/zip"]
    /\ fpc = "get"
    /\ todo = <<>>
    /\ leaf = [url |-> Ua, name |-> FileItem(impl, Ua).name,
               ext |-> FileItem(impl, Ua).ext,
               dest |-> IF fmode = "dir" THEN Dest(FileItem(impl, Ua))
                        ELSE <<FileItem(impl, Ua).name>>]
    /\ est = None
    /\ downloaded = 0
    /\ pending = 0
    /\ disk = NoFiles
    /\ outcomes = <<>>
    /\ reqs = IF impl = "us" THEN <<"HEAD", "RANGE">> ELSE <<"HEAD">>
    /\ created = {}
    /\ writing = FALSE
    /\ raised = ""
    /\ MainRunning
    /\ hresp = NoAnswer
    /\ rresp = NoAnswer
    /\ body \in 0..(MaxBytesBound + 2)
    /\ total = 0
    /\ unknown = 0
    /\ sizeLog = <<>>
    /\ BotIdle

TransferNext ==
    \/ GetOk
    \/ RecvChunk
    \/ WriteChunk
    \/ Overflow
    \/ StreamEnd

SpecTransfer == TransferInit /\ [][TransferNext]_vars

----------------------------------------------------------------------------
(* mode_size *)

SizeInit ==
    /\ impl \in {"dash", "us"}
    /\ site = SiteScenario
    /\ root \in {Url("http", Hn, Docs, TRUE, <<>>), Ua}
    /\ max_files = MaxFilesBound
    /\ max_depth = MaxDepthBound
    /\ allow_ext = {Pdf, Zip}
    /\ cpc = "notcalled"
    /\ host = Lower(root.netloc)
    /\ q = <<>>
    /\ visited_dirs = {}
    /\ files = <<>>
    /\ cur = Entry(root, 0)
    /\ links = <<>>
    /\ fetchLog = <<>>
    /\ qLog = <<>>
    /\ max_bytes = MaxBytesBound
    /\ mode = "size"
    /\ probe = NoProbe
    /\ fmode = "dir"
    /\ fpc = "start"
    /\ todo = <<>>
    /\ leaf = NoLeaf
    /\ est = None
    /\ downloaded = 0
    /\ pending = 0
    /\ disk = NoFiles
    /\ outcomes = <<>>
    /\ reqs = <<>>
    /\ created = {}
    /\ writing = FALSE
    /\ raised = ""
    /\ MainRunning
    /\ SizeIdle
    /\ BotIdle

\* if sz is None: unknown += 1; continue / total += sz, then the next pass
\* of "for f in files" or the return
SizeAdd(sz, sent) ==
    /\ est' = sz
    /\ unknown' = IF sz = None THEN unknown + 1 ELSE unknown
    /\ total' = IF sz = None THEN total ELSE total + sz
    /\ sizeLog' = Append(sizeLog, [url |-> Head(todo).url, size |-> sz, reqs |-> sent])
    /\ reqs' = sent
    /\ todo' = Tail(todo)
    /\ fpc' = IF Tail(todo) = <<>> THEN "done" ELSE "size"

\* us: sz = await estimate_size_bytes(session, f.url), its HEAD
SizeHead ==
    /\ fpc = "size"
    /\ \E r \in HeadResponses :
          IF head_content_length(r) # None
          THEN SizeAdd(head_content_length(r), <<"HEAD">>)
          ELSE /\ fpc' = "sizerange"
               /\ reqs' = <<"HEAD">>
               /\ est' = None
               /\ UNCHANGED <<todo, sizeVars>>
    /\ UNCHANGED <<botVars, chatVars, serverVars, mainVars, crawlVars, max_bytes, mode, probe, fmode, leaf,
                   downloaded, pending, disk, outcomes, created, writing, raised>>

\* us: estimate_size_bytes, its ranged GET
SizeRange ==
    /\ fpc = "sizerange"
    /\ \E r \in RangeResponses :
          SizeAdd(get_content_length_fallback(r), <<"HEAD", "RANGE">>)
    /\ UNCHANGED <<botVars, chatVars, serverVars, mainVars, crawlVars, max_bytes, mode, probe, fmode, leaf,
                   downloaded, pending, disk, outcomes, created, writing, raised>>

\* dash, the direct-file branch: size, ct, cd = await head_info(session,
\* root_url), and the report
SizeDirect ==
    /\ fpc = "sizedirect"
    /\ \E r \in HeadResponses :
          /\ est' = head_info_size(r)
          /\ reqs' = Append(reqs, "HEAD")
    /\ fpc' = "done"
    /\ UNCHANGED <<botVars, chatVars, serverVars, sizeVars, mainVars, crawlVars, max_bytes, mode, probe, fmode,
                   todo, leaf, downloaded, pending, disk, outcomes, created, writing, raised>>

SizeNext ==
    \/ ModeDirectory
    \/ ModeProbe
    \/ SizeHead
    \/ SizeRange
    \/ SizeDirect

SpecSize == SizeInit /\ [][SizeNext]_vars

----------------------------------------------------------------------------
(* Claims about crawl_directory, checked under SpecCrawl *)

FetchedUrls == [i \in 1..Len(fetchLog) |-> fetchLog[i].url]
FileUrls == [i \in 1..Len(files) |-> files[i].url]

\* C1: during one crawl_directory call, whatever the link graph (cycles,
\* links back to ancestors), every fetch_text call is for a normalised
\* (ending with "/") directory URL and no such URL is fetched twice.
C1_FetchedAtMostOnce ==
    /\ NoDup(FetchedUrls)
    /\ \A i \in 1..Len(fetchLog) : EndsWithSlash(fetchLog[i].url)

\* C1 witness: the crawl is over, two frontier entries within the depth
\* limit named the same normalised directory (a link back to a directory
\* already visited, or the same directory under two spellings), both were
\* popped (q is first in, first out: the popped entries are the first
\* Len(qLog) - Len(q) ever appended), and the directory was fetched.
C1_Witness ==
    /\ cpc = "done"
    /\ \E i, j \in 1..(Len(qLog) - Len(q)) :
          /\ i < j
          /\ NormDir(qLog[i].url) = NormDir(qLog[j].url)
          /\ qLog[j].depth <= max_depth
          /\ \E k \in 1..Len(fetchLog) : fetchLog[k].url = NormDir(qLog[j].url)

\* C2: in every state of crawl_directory, not only at return, the number of
\* collected leaves is at most max_files.
C2_AtMostMaxFiles == Len(files) <= max_files

\* C2 witness: in the middle of a page the quota is met (max_files > 0)
\* while the next link of the page is a file the loop would otherwise collect.
C2_Witness ==
    /\ cpc = "links"
    /\ max_files > 0
    /\ Len(files) = max_files
    /\ links # <<>>
    /\ LinkClass(impl, Head(links)) = "file"

\* C3: no page is fetched for a frontier entry whose depth exceeds
\* max_depth, and with max_depth = 0 only the root page is fetched.
C3_NoFetchBeyondMaxDepth ==
    /\ \A i \in 1..Len(fetchLog) : fetchLog[i].depth <= max_depth
    /\ max_depth = 0 =>
          \A i \in 1..Len(fetchLog) : fetchLog[i].url = NormDir(root)

\* C3 witness: max_depth = 0, the root page was fetched and it links to a
\* sub-directory of the same host, and the crawl returned after that one fetch.
C3_Witness ==
    /\ cpc = "done"
    /\ max_depth = 0
    /\ Len(fetchLog) = 1
    /\ fetchLog[1].ok
    /\ \E i \in 1..Len(parse_links(Page(site, NormDir(root).path), NormDir(root))) :
          LinkClass(impl, parse_links(Page(site, NormDir(root).path), NormDir(root))[i]) = "dir"

\* C4 (as claimed): the crawl result never holds two leaves with the same
\* URL, also when two visited pages link to the same file.
C4_NoTwoLeavesShareUrl == NoDup(FileUrls)

----------------------------------------------------------------------------
(* Claims about the downloads, checked under SpecFetch *)

\* a fetch has returned to its caller and nothing has been done since
ReturnPoint == fpc \in {"idle", "done"} /\ outcomes # <<>>

\* C5: the byte cap is enforced on the bytes received.  While chunks are
\* read and written the running count is within max_bytes, so the chunk
\* that takes the count over the cap is never written; and a fetch whose
\* count went over the cap returns the "exceeded limit" skip with its file
\* deleted, whatever size the probes declared.
C5_CapOnReceivedBytes ==
    /\ fpc \in {"stream", "write"} => downloaded <= max_bytes
    /\ fpc = "overflow" =>
          /\ downloaded > max_bytes
          /\ Size(leaf.dest) = downloaded - pending
          /\ Size(leaf.dest) <= max_bytes
    /\ (ReturnPoint /\ downloaded > max_bytes) =>
          /\ Last(outcomes).kind = "SKIP_EXCEEDED"
          /\ Last(outcomes).dest = leaf.dest
          /\ Size(leaf.dest) = Absent

\* C5 witness: the probe declared a size within the cap, bytes were written,
\* then a chunk took the count over the cap: the fetch returned the skip
\* and the file is gone.
C5_Witness ==
    /\ ReturnPoint
    /\ Last(outcomes).kind = "SKIP_EXCEEDED"
    /\ est # None /\ est <= max_bytes
    /\ downloaded > max_bytes
    /\ downloaded - pending > 0
    /\ leaf.dest \in created
    /\ Size(leaf.dest) = Absent

\* C6: when a fetch has returned, on every exit path, its destination is
\* absent or holds a file whose size is the byte count reported as
\* downloaded: the count of this fetch when it reports OK; no file after an
\* overflow or a failure; and after a skip that opened nothing, no file or
\* the file of an earlier OK report for the same path, with that count.
C6_FileAbsentOrComplete ==
    ReturnPoint =>
        LET o == Last(outcomes)
        IN /\ o.kind = "OK" => Size(o.dest) = o.bytes
           /\ o.kind \in {"SKIP_EXCEEDED", "FAIL"} => Size(o.dest) = Absent
           /\ o.kind \in {"SKIP_LARGE", "REJECTED"} =>
                 \/ Size(o.dest) = Absent
                 \/ \E i \in 1..(Len(outcomes) - 1) :
                       /\ outcomes[i].dest = o.dest
                       /\ outcomes[i].kind = "OK"
                       /\ outcomes[i].bytes = Size(o.dest)

\* C6 witness: mode_download has returned; one leaf was downloaded in full
\* (max_bytes > 0 bytes) and its file has that size, another leaf failed
\* after its file had been opened and its file is gone.
C6_Witness ==
    /\ fpc = "done"
    /\ max_bytes > 0
    /\ \E i, j \in 1..Len(outcomes) :
          /\ outcomes[i].kind = "OK"
          /\ outcomes[i].bytes = max_bytes
          /\ Size(outcomes[i].dest) = max_bytes
          /\ outcomes[j].kind = "FAIL"
          /\ outcomes[j].dest \in created
          /\ Size(outcomes[j].dest) = Absent

\* C7: a transport error at any point of a download, before or after the
\* destination was opened, never leaves the fetch as an exception; the
\* fetch returns a failure that carries the error, and the file is gone.
C7_TransportErrorIsFailure ==
    /\ raised \notin TransportErrors
    /\ (ReturnPoint /\ Last(outcomes).kind = "FAIL") =>
          /\ Last(outcomes).detail \in TransportErrors
          /\ Size(Last(outcomes).dest) = Absent

\* C7 witness: the transfer timed out after bytes had been written; the
\* fetch returned the failure and the file is gone.
C7_Witness ==
    /\ ReturnPoint
    /\ Last(outcomes).kind = "FAIL"
    /\ Last(outcomes).detail = "TimeoutError"
    /\ writing
    /\ downloaded > 0 /\ pending = 0
    /\ Size(leaf.dest) = Absent

\* C8 (as claimed): when a download is cancelled after its destination was
\* opened, the partial file is deleted before the cancellation leaves the
\* fetch.
C8_CancelDeletesPartialFile ==
    (fpc = "raised" /\ raised = Cancelled /\ writing) => Size(leaf.dest) = Absent

\* C9 (as claimed): no file is ever opened for writing for a resource whose
\* derived extension is empty or not in the allow-list, in directory mode
\* and in direct-file mode.
C9_NoWriteUnlessAllowed ==
    \A d \in created : is_allowed_ext(norm_ext(Last(d)), allow_ext)

\* C10 (as claimed): with an empty allow-list no leaf is allowed: nothing is
\* attempted and no file is written.
C10_EmptyAllowListDeniesAll ==
    allow_ext = {} => (created = {} /\ todo = <<>> /\ fpc \notin {"get", "stream"})

----------------------------------------------------------------------------
(* Claims about the links crawl_directory follows, checked under SpecCrawl *)

\* the origin of a URL: the scheme and the netloc (host and port), the
\* host compared without regard to case
Origin(u) == <<u.scheme, Lower(u.netloc)>>

QueuedUrls == [i \in 1..Len(qLog) |-> qLog[i].url]

\* C11 (as claimed): every leaf collected and every directory enqueued has
\* the origin (scheme, host, port) of the root; a link that differs from the
\* root in its scheme only is skipped.
C11_SameOrigin ==
    /\ \A i \in 1..Len(files) : Origin(files[i].url) = Origin(root)
    /\ \A i \in 1..Len(qLog) : Origin(qLog[i].url) = Origin(root)

\* the path segments an href names, as written on the page
HrefSegs(h) ==
    IF h.kind = "abs" THEN h.url.path
    ELSE IF h.kind \in {"rel", "root"} THEN h.segs
    ELSE <<>>

\* an href that is a parent-directory reference: it holds a ".." segment
IsParentRef(h) == \E i \in 1..Len(HrefSegs(h)) : HrefSegs(h)[i] = DotDot

\* the hrefs of the page a successful fetch_text call returned
PageOf(f) == Page(site, f.url.path)

\* the URLs the crawl has a reason to hold that is not a parent reference:
\* the root, and the targets of the other links of the pages fetched
OtherTargets ==
    {root, SeedUrl(impl, root), NormDir(root)}
    \cup UNION { {safe_join(fetchLog[i].url, PageOf(fetchLog[i])[k]) :
                     k \in {n \in 1..Len(PageOf(fetchLog[i])) :
                              /\ ~should_skip_href(PageOf(fetchLog[i])[n])
                              /\ ~IsParentRef(PageOf(fetchLog[i])[n])}} :
                 i \in {m \in 1..Len(fetchLog) : fetchLog[m].ok} }

\* the targets of the parent references of the pages fetched, those that
\* no other link names
ParentTargets ==
    UNION { {safe_join(fetchLog[i].url, PageOf(fetchLog[i])[k]) :
                k \in {n \in 1..Len(PageOf(fetchLog[i])) :
                         IsParentRef(PageOf(fetchLog[i])[n])}} :
            i \in {m \in 1..Len(fetchLog) : fetchLog[m].ok} }
    \ OtherTargets

\* C12 (as claimed): the target of a parent-directory reference ("../",
\* "../escape") is never enqueued as a directory and never collected as a
\* leaf.
C12_ParentRefsDropped ==
    /\ \A i \in 1..Len(files) : files[i].url \notin ParentTargets
    /\ \A i \in 1..Len(qLog) : qLog[i].url \notin ParentTargets

----------------------------------------------------------------------------
(* Claims about the order and the completeness of the crawl result,        *)
(* checked under SpecCrawl                                                 *)

\* the first n elements of a sequence
Take(s, n) == SubSeq(s, 1, IF n < Len(s) THEN n ELSE Len(s))

IsPrefix(s, t) == Len(s) <= Len(t) /\ s = SubSeq(t, 1, Len(s))

\* the leaves of the page of one fetch_text call, in page order: the links
\* the loop appends to files
RECURSIVE LeavesOfLinks(_)
LeavesOfLinks(ls) ==
    IF ls = <<>> THEN <<>>
    ELSE IF LinkClass(impl, Head(ls)) = "file"
         THEN <<FileItem(impl, Head(ls))>> \o LeavesOfLinks(Tail(ls))
    ELSE LeavesOfLinks(Tail(ls))

\* the leaves of the pages of a sequence of fetch_text calls, page after
\* page; a failed call gives no page
RECURSIVE LeavesOf(_)
LeavesOf(log) ==
    IF log = <<>> THEN <<>>
    ELSE (IF Head(log).ok
          THEN LeavesOfLinks(parse_links(PageOf(Head(log)), Head(log).url))
          ELSE <<>>) \o LeavesOf(Tail(log))

\* the frontier entries popped so far, in the order of their discovery
Popped == SubSeq(qLog, 1, Len(qLog) - Len(q))

\* the directories of a sequence of frontier entries that get past the depth
\* test, normalised
RECURSIVE DirsOf(_)
DirsOf(es) ==
    IF es = <<>> THEN <<>>
    ELSE IF TooDeep(Head(es).depth) THEN DirsOf(Tail(es))
    ELSE <<NormDir(Head(es).url)>> \o DirsOf(Tail(es))

\* C13: the leaves are in BFS discovery order.  The frontier is first in,
\* first out (what is left of it is the tail of the entries in discovery
\* order); the pages are fetched in the order their directories were first
\* discovered; the result is the leaves of the pages in fetch order, each
\* page in page order, cut at max_files.  The result is thereby a function
\* of the page contents and the fetch outcomes.
C13_BfsDiscoveryOrder ==
    /\ Len(q) <= Len(qLog)
    /\ q = SubSeq(qLog, Len(qLog) - Len(q) + 1, Len(qLog))
    /\ FetchedUrls = IF cpc = "fetch" THEN Front(Dedup(DirsOf(Popped), {}))
                     ELSE Dedup(DirsOf(Popped), {})
    /\ IsPrefix(files, LeavesOf(fetchLog))
    /\ cpc \in {"loop", "done"} => files = Take(LeavesOf(fetchLog), max_files)

\* C13 witness: on the tree, with room for three leaves, the crawl returned
\* r.pdf (root page), a1.pdf (first sibling) and b1.pdf (second sibling),
\* although the sub-directory of the first sibling was discovered before the
\* page of the second sibling was fetched.
C13_Witness ==
    /\ cpc = "done"
    /\ site = SiteTree
    /\ Len(files) = 3
    /\ files[1].name = File("r", "pdf")
    /\ files[2].name = File("a1", "pdf")
    /\ files[3].name = File("b1", "pdf")
    /\ \E i \in 1..Len(qLog) : qLog[i].url.path = <<Seg("docs"), Seg("a"), Seg("deep")>>

\* C14: a failed fetch of a directory page (a non-success status, a network
\* error) raises nothing out of crawl_directory, and the crawl goes on with
\* the rest of the frontier: when it returns below the quota, every
\* directory discovered within the depth limit was tried, and the result
\* holds every leaf of every page that was fetched.
C14_FetchFailureSkipsPage ==
    /\ cpc # "raised"
    /\ (cpc = "done" /\ Len(files) < max_files) =>
          /\ q = <<>>
          /\ \A i \in 1..Len(qLog) :
                ~TooDeep(qLog[i].depth) =>
                   \E k \in 1..Len(fetchLog) : fetchLog[k].url = NormDir(qLog[i].url)
          /\ files = LeavesOf(fetchLog)

\* C14 witness: the crawl returned; the fetch of one directory failed and a
\* directory fetched after it gave a leaf of the result.
C14_Witness ==
    /\ cpc = "done"
    /\ \E i, j \in 1..Len(fetchLog) :
          /\ i < j
          /\ ~fetchLog[i].ok
          /\ fetchLog[j].ok
          /\ \E n \in 1..Len(files) :
                \E k \in 1..Len(parse_links(PageOf(fetchLog[j]), fetchLog[j].url)) :
                   files[n].url = parse_links(PageOf(fetchLog[j]), fetchLog[j].url)[k]

----------------------------------------------------------------------------
(* Claims about the modes, checked under SpecFetch *)

\* C15: when the root has no trailing "/" and the HEAD probe reports a
\* content type that is not HTML, the mode takes the direct-file branch and
\* crawl_directory is never called: no page is fetched or parsed, there is
\* no list of leaves, and the only result is the one for the root itself.
C15_DirectFileBypassesCrawl ==
    /\ (probe.asked /\ ~probe.exc /\ probe.ct = "application/zip") => fmode = "direct"
    /\ fmode = "direct" =>
          /\ ~EndsWithSlash(root)
          /\ cpc = "notcalled"
          /\ files = <<>>
          /\ todo = <<>>
          /\ Len(outcomes) <= 1
          /\ \A i \in 1..Len(outcomes) : outcomes[i].url = root

\* C15 witness: mode_download returned after the probe of the root reported
\* application/zip: the one outcome is the download of the root.
C15_Witness ==
    /\ fpc = "done"
    /\ mode = "download"
    /\ probe.asked /\ probe.ct = "application/zip"
    /\ fmode = "direct"
    /\ Len(outcomes) = 1
    /\ outcomes[1].kind = "OK"
    /\ outcomes[1].bytes > 0
    /\ outcomes[1].url = root

\* C20 (as claimed): when the HEAD probe of a root without trailing "/"
\* fails or returns no content type, the root is treated as a directory:
\* crawl_directory is called, the direct-file branch is not taken.
C20_ProbeFailureMeansDirectory ==
    (probe.asked /\ (probe.exc \/ probe.ct = "")) => (fmode = "dir" /\ cpc = "done")

----------------------------------------------------------------------------
(* Claims about the size gate and the size probes, checked under SpecFetch *)

\* the requests sent for the current leaf hold a download GET
GetSent == \E i \in 1..Len(reqs) : reqs[i] = "GET"

C17_EstimateNeverRaises ==
    /\ fpc = "raised" => raised \notin {"ClientConnectionError", "TimeoutError", "ValueError"}
    /\ fpc = "range" => est = None
    /\ fpc = "gate" =>
          /\ est = None \/ est \in Nat
          /\ Last(reqs) \in {"HEAD raised", "RANGE raised"} => est = None

\* C17 witness: in the us variant the HEAD raised and the ranged GET raised;
\* the estimate came back as None and the fetch is at its size gate.
C17_Witness ==
    /\ impl = "us"
    /\ fpc = "gate"
    /\ reqs = <<"HEAD raised", "RANGE raised">>
    /\ est = None
    /\ raised = ""

----------------------------------------------------------------------------
(* Claims about the loop of mode_download, checked under SpecFetch *)

\* the URLs of the allowed leaves, in crawl order
AllowedUrls ==
    [i \in 1..Len(AllowedOf(files, allow_ext)) |-> AllowedOf(files, allow_ext)[i].url]

OutcomeUrls == [i \in 1..Len(outcomes) |-> outcomes[i].url]

\* C18 (as claimed): in download mode the allowed leaves are attempted once
\* each in crawl order and each gets one outcome; no failure of one leaf
\* keeps the later leaves from being attempted: nothing but a cancellation
\* ends the loop early, and at the return the outcomes are those of all the
\* allowed leaves.
C18_EveryAllowedLeafOnce ==
    (mode = "download" /\ fmode = "dir" /\ cpc = "done") =>
        /\ IsPrefix(OutcomeUrls, AllowedUrls)
        /\ fpc = "done" => OutcomeUrls = AllowedUrls
        /\ fpc = "raised" => raised = Cancelled


----------------------------------------------------------------------------
(* Claims about main_async, checked under SpecMain *)

\* C19: when the root URL is not an onion URL (wrong scheme, a host that is
\* no 16 to 56 character base32 label under .onion, a port, a query right
\* after the host), or a proxy is configured while ProxyConnector is
\* missing, no session is ever created and no request is ever sent, the
\* mode never starts, and the invocation ends with a non-zero exit code:
\* 2 for the URL, checked first.
C19_InvalidInvocationExitsEarly ==
    (root \in BadRoots \/ (tor_proxy \in {Socks5h, Socks5} /\ ~connector)) =>
        /\ ~session
        /\ reqs = <<>>
        /\ mpc # "mode"
        /\ mpc = "exit" => exit_code \in {1, 2, 3}
        /\ (mpc = "exit" /\ root \in BadRoots) => exit_code = 2

\* C19 witness: an onion root, a proxy given, ProxyConnector missing: the
\* invocation has ended with exit code 3.
C19_Witness ==
    /\ mpc = "exit"
    /\ exit_code = 3
    /\ root \in GoodRoots
    /\ tor_proxy \in {Socks5h, Socks5}
    /\ ~connector

----------------------------------------------------------------------------
(* Claims about the size estimate, checked under SpecEstimate *)

\* the HEAD answer has a success status and a Content-Length that is a number
HeadGood == ~hresp.exc /\ hresp.status = 200 /\ hresp.cl \in Sizes

\* C21: once the HEAD probe of the leaf has returned, the estimate it leaves
\* is a size only if the answer had a success status and a well-formed
\* Content-Length; in that case the estimate is that Content-Length and the
\* HEAD is the only request sent; after any other HEAD answer (an error
\* status, no or a malformed Content-Length, an exception) the HEAD alone
\* leaves the size unknown.
C21_HeadSizeOnlyOnSuccess ==
    reqs # <<>> =>
        /\ HeadGood => (est = hresp.cl /\ reqs = <<"HEAD">>)
        /\ (~HeadGood /\ Len(reqs) = 1) => est = None

\* the ranged GET has been sent and has returned
RangeDone == Len(reqs) = 2 /\ reqs[2] \in {"RANGE", "RANGE raised"}

\* C22 as stated: after the ranged GET the estimate is the total of the
\* Content-Range on a 206 answer, the Content-Length on a 200 answer, and
\* unknown otherwise.
C22_RangeAsStated ==
    RangeDone =>
        est = IF ~rresp.exc /\ rresp.status = 206 /\ rresp.cr \in Sizes THEN rresp.cr
              ELSE IF ~rresp.exc /\ rresp.status = 200 /\ rresp.cl \in Sizes THEN rresp.cl
              ELSE None

\* C22, amended: after the ranged GET the estimate is the total of a
\* well-formed Content-Range on a 206 or a 200 answer; without a
\* Content-Range total it is the well-formed Content-Length of a 200 answer;
\* it is unknown otherwise (an error status, an exception, a total that
\* int() rejects).  The Content-Length of a 206 answer is never the estimate.
C22_RangeFallback ==
    RangeDone =>
        /\ est = IF rresp.exc \/ rresp.status \notin {200, 206} THEN None
                 ELSE IF rresp.cr \in Sizes THEN rresp.cr
                 ELSE IF rresp.cr = HdrOdd THEN None
                 ELSE IF rresp.status = 200 /\ rresp.cl \in Sizes THEN rresp.cl
                 ELSE None
        /\ (~rresp.exc /\ rresp.status = 206 /\ rresp.cr \notin Sizes) => est = None

\* C22 witness: a 206 answer whose Content-Range gives no total and whose
\* Content-Length is 1: the ranged GET has returned and the size is unknown.
C22_Witness ==
    /\ RangeDone
    /\ ~rresp.exc /\ rresp.status = 206
    /\ rresp.cr = HdrAbsent /\ rresp.cl = 1
    /\ est = None

----------------------------------------------------------------------------
(* More claims about crawl_directory, checked under SpecCrawl *)

\* C23: once len(files) has reached max_files, the crawl is never at a
\* page fetch, and every step it takes leaves the result, the frontier, the
\* set of visited directories and the list of fetched pages as they are:
\* the remaining links of the page are not looked at (the for loop breaks)
\* and the while loop ends, with the entries left in the frontier unfetched.
C23_QuotaStopsCrawl ==
    /\ [](Len(files) >= max_files => cpc \in {"links", "loop", "done"})
    /\ [][Len(files) >= max_files =>
            /\ files' = files
            /\ fetchLog' = fetchLog
            /\ q' = q
            /\ qLog' = qLog
            /\ visited_dirs' = visited_dirs
            /\ cpc' \in {"loop", "done"}
            /\ links' = <<>>]_vars

\* C23 witness: the quota was reached in the middle of a page (a link of it
\* was not looked at: the result is shorter than the leaves of the pages
\* fetched), the crawl has returned and a directory is still in the
\* frontier.
C23_Witness ==
    /\ cpc = "done"
    /\ max_files > 0
    /\ Len(files) = max_files
    /\ Len(LeavesOf(fetchLog)) > max_files
    /\ q # <<>>

\* crawl_directory as a function of the root and of the set of pages whose
\* fetch fails.  ForLinks is "for link in links" on the links ls of a page of
\* depth d; CrawlLoop is the while loop; s holds q, visited_dirs, files and
\* the pages passed to fetch_text.
RECURSIVE ForLinks(_, _, _)
ForLinks(ls, d, s) ==
    IF ls = <<>> \/ Len(s.files) >= max_files THEN s
    ELSE LET u == Head(ls)
             k == LinkClass(impl, u)
         IN ForLinks(Tail(ls), d,
               [s EXCEPT !.q = IF k = "dir" /\ DepthAllows(d)
                               THEN Enqueue(@, Entry(u, d + 1)) ELSE @,
                         !.files = IF k = "file" THEN Append(@, FileItem(impl, u))
                                   ELSE @])

RECURSIVE CrawlLoop(_, _)
CrawlLoop(s, fails) ==
    IF s.q = <<>> \/ Len(s.files) >= max_files THEN s
    ELSE LET e == Head(s.q)
             c == NormDir(e.url)
             s1 == [s EXCEPT !.q = Tail(@)]
             s2 == [s1 EXCEPT !.visited = @ \cup {c}, !.fetched = Append(@, c)]
         IN IF TooDeep(e.depth) \/ c \in s.visited THEN CrawlLoop(s1, fails)
            ELSE IF c \in fails \/ ~Served(site, c.path) THEN CrawlLoop(s2, fails)
            ELSE CrawlLoop(ForLinks(parse_links(Page(site, c.path), c), e.depth, s2), fails)

CrawlRun(r, fails) ==
    CrawlLoop([q |-> <<Entry(SeedUrl(impl, r), 0)>>, visited |-> {},
               files |-> <<>>, fetched |-> <<>>], fails)

\* the pages whose fetch has failed in this crawl
Fails == {fetchLog[i].url : i \in {j \in 1..Len(fetchLog) : ~fetchLog[j].ok}}

\* the root under its other spelling: with the trailing "/" if it has none,
\* without it if it has one
Twin(r) == [r EXCEPT !.slash = ~@]

\* C24: a crawl that has returned made the page fetches and returns the
\* result that crawl_directory makes, on the same site with the same pages
\* failing, from the root spelled the other way (with or without the
\* trailing "/"), and from the root as given; and of two frontier entries
\* that differ only in the trailing "/" at most one led to a fetch.
C24_TrailingSlashSameNode ==
    cpc = "done" =>
        /\ FetchedUrls = CrawlRun(Twin(root), Fails).fetched
        /\ files = CrawlRun(Twin(root), Fails).files
        /\ FetchedUrls = CrawlRun(root, Fails).fetched
        /\ files = CrawlRun(root, Fails).files
        /\ \A i, j \in 1..Len(qLog) :
              (qLog[i].url # qLog[j].url /\ NormDir(qLog[i].url) = NormDir(qLog[j].url))
                 => Cardinality({k \in 1..Len(fetchLog) :
                                    fetchLog[k].url = NormDir(qLog[i].url)}) <= 1

\* C24 witness: the root was given without the trailing "/", the crawl has
\* returned leaves from more than one page, and a link led back to the root
\* spelled with the "/": both spellings were in the frontier and the
\* directory was fetched.
C24_Witness ==
    /\ cpc = "done"
    /\ ~EndsWithSlash(root)
    /\ Len(fetchLog) >= 2
    /\ files # <<>>
    /\ \E i, j \in 1..(Len(qLog) - Len(q)) :
          /\ qLog[i].url = root
          /\ qLog[j].url = NormDir(root)
          /\ qLog[j].depth <= max_depth
    /\ \E k \in 1..Len(fetchLog) : fetchLog[k].url = NormDir(root) /\ fetchLog[k].ok

\* C25: no leaf of the result has an empty extension: a link that is no
\* directory and whose last path segment has no "." (or ends with it) is
\* not collected.
C25_NoLeafWithoutExtension ==
    \A i \in 1..Len(files) : files[i].ext # <<>>

----------------------------------------------------------------------------
(* Claims about the transfer of a body, checked under SpecTransfer *)

\* C26: however the body is cut into chunks, a transfer that has returned
\* ends as the length of the body and the cap alone decide: a body longer
\* than max_bytes gives the "exceeded limit" skip and no file, any other
\* body gives OK with the length of the body as byte count and a file of
\* that length; and between two chunks the file holds the bytes received
\* so far.  (On overflow download_direct_file also reports the count it
\* stopped at, which is not part of this statement.)
C26_ChunkingDoesNotMatter ==
    /\ fpc = "stream" => Size(leaf.dest) = downloaded
    /\ (fpc \in {"idle", "done"} /\ outcomes # <<>>) =>
          LET o == Last(outcomes)
          IN IF body > max_bytes
             THEN /\ o.kind = "SKIP_EXCEEDED"
                  /\ fmode = "dir" => o.bytes = 0
                  /\ o.detail = ""
                  /\ Size(leaf.dest) = Absent
             ELSE /\ o.kind = "OK"
                  /\ o.bytes = body
                  /\ o.detail = ""
                  /\ Size(leaf.dest) = body

\* C26 witness: a body longer than the longest chunk, hence received in two
\* chunks at least (and in more than one way), and within the cap: the
\* transfer has returned OK.
C26_Witness ==
    /\ fpc \in {"idle", "done"}
    /\ outcomes # <<>>
    /\ Last(outcomes).kind = "OK"
    /\ body = MaxChunk + 1
    /\ Size(leaf.dest) = body

----------------------------------------------------------------------------
(* Claims about mode_size, checked under SpecSize *)

\* the sum of the sizes of a log of probes, the unknown ones left out
RECURSIVE KnownSum(_)
KnownSum(lg) ==
    IF lg = <<>> THEN 0
    ELSE (IF Head(lg).size = None THEN 0 ELSE Head(lg).size) + KnownSum(Tail(lg))

\* C27: when size mode has gone through a directory and returns, the leaves
\* probed are the leaves of the crawl result, each once and in crawl order,
\* each probe being one HEAD, followed by one ranged GET at most; unknown
\* is the number of probes that gave no size, so known plus unknown is the
\* number of leaves; and total is the sum of the sizes that are known.
C27_SizeModeProbesEveryLeaf ==
    (mode = "size" /\ fmode = "dir" /\ fpc = "done") =>
        /\ [i \in 1..Len(sizeLog) |-> sizeLog[i].url] = FileUrls
        /\ \A i \in 1..Len(sizeLog) :
              sizeLog[i].reqs \in {<<"HEAD">>, <<"HEAD", "RANGE">>}
        /\ unknown = Cardinality({i \in 1..Len(sizeLog) : sizeLog[i].size = None})
        /\ unknown <= Len(files)
        /\ total = KnownSum(sizeLog)
----------------------------------------------------------------------------
(* Claims about the frontier of crawl_directory, checked under SpecCrawl *)

\* the directory links of the page of directory w, as the for loop sees
\* them; a page whose fetch failed gave none
DirLinks(w) ==
    IF w \in Fails \/ ~Served(site, w.path) THEN {}
    ELSE LET ls == parse_links(Page(site, w.path), w)
         IN {NormDir(ls[i]) : i \in {j \in 1..Len(ls) : LinkClass(impl, ls[j]) = "dir"}}

\* the directories within k link-steps of the root
RECURSIVE Within(_)
Within(k) ==
    IF k < 0 THEN {}
    ELSE IF k = 0 THEN {NormDir(root)}
    ELSE LET W == Within(k - 1)
         IN W \cup UNION {DirLinks(w) : w \in W}

FrontierWithinDepth == \A i \in 1..Len(qLog) : qLog[i].depth <= max_depth

\* a directory is dequeued for the first time when it enters visited_dirs,
\* which is when its page is asked for: its depth then is the least k that
\* puts it within k link-steps of the root
FirstDequeueAtMinDist ==
    \A i \in 1..Len(fetchLog) :
        /\ fetchLog[i].url \in Within(fetchLog[i].depth)
        /\ fetchLog[i].url \notin Within(fetchLog[i].depth - 1)

AllWithinDepthFetched ==
    (cpc = "done" /\ Fails = {} /\ ~QuotaMet) =>
        Within(max_depth) = {fetchLog[i].url : i \in 1..Len(fetchLog)}

C29_CrawlTerminates ==
    /\ <>(cpc = "done")
    /\ [](cpc = "done" => (q = <<>> \/ QuotaMet))

\* C29 witness: on the site without end, the crawl has returned with the
\* frontier empty and the quota not reached, after fetching one page per
\* depth 0..max_depth; the last page linked to one more sub-directory.
C29_Witness ==
    /\ cpc = "done"
    /\ site = SiteEndless
    /\ max_depth = 1
    /\ q = <<>>
    /\ ~QuotaMet
    /\ Fails = {}
    /\ Len(fetchLog) = 2
    /\ DirLinks(Last(fetchLog).url) # {}
----------------------------------------------------------------------------
(* Claims about the bytes on disk during a transfer *)

\* the size of the file at d after a step
SizeAfter(d) == IF d \in DOMAIN disk' THEN disk'[d] ELSE Absent

\* C30: after every step taken while the destination is open, it holds
\* max_bytes bytes at most; the file grows only by f.write of a chunk that
\* left the count within max_bytes, to the count exactly; and the chunk
\* that took the count over max_bytes is not written: the step taken in
\* that position removes the file or leaves it as it is.
C30_WrittenBytesWithinCap ==
    [][/\ writing' => SizeAfter(leaf'.dest) <= max_bytes
       /\ (SizeAfter(leaf.dest) > Size(leaf.dest) /\ Size(leaf.dest) # Absent) =>
             /\ fpc = "write"
             /\ downloaded <= max_bytes
             /\ SizeAfter(leaf.dest) = downloaded
       /\ fpc = "overflow" =>
             SizeAfter(leaf.dest) \in {Absent, Size(leaf.dest)}]_vars

\* C30 witness: bytes were written, filling the file to max_bytes exactly,
\* then one more chunk took the count over the cap and the transfer
\* returned the skip with the file removed.
C30_Witness ==
    /\ fpc \in {"idle", "done"}
    /\ outcomes # <<>>
    /\ Last(outcomes).kind = "SKIP_EXCEEDED"
    /\ max_bytes > 0
    /\ downloaded - pending = max_bytes
    /\ pending > 0
    /\ Size(leaf.dest) = Absent
----------------------------------------------------------------------------
(* Claims about the limits and the destination of mode_download, checked  *)
(* under SpecFetch                                                        *)

\* C31: both limits are strict.  A fetch that returned the size-gate skip
\* had an estimate greater than max_bytes, one that returned the "exceeded
\* limit" skip had received more than max_bytes, so neither skip happens at
\* max_bytes exactly; while a stream that has received max_bytes bytes is
\* read on, its file holds them all; and a fetch that returned OK with
\* max_bytes bytes received reports that count and left a file of that size.
C31_LimitsAreStrict ==
    /\ (ReturnPoint /\ Last(outcomes).kind = "SKIP_LARGE") =>
          est # None /\ est > max_bytes
    /\ (ReturnPoint /\ Last(outcomes).kind = "SKIP_EXCEEDED") =>
          downloaded > max_bytes
    /\ (fpc = "stream" /\ downloaded = max_bytes) => Size(leaf.dest) = max_bytes
    /\ (ReturnPoint /\ Last(outcomes).kind = "OK" /\ downloaded = max_bytes) =>
          /\ Last(outcomes).bytes = max_bytes
          /\ Size(Last(outcomes).dest) = max_bytes

\* C31 witness: the estimate was max_bytes exactly and so was the total
\* received: the fetch returned OK and the file
\* holds max_bytes bytes.
C31_Witness ==
    /\ ReturnPoint
    /\ Last(outcomes).kind = "OK"
    /\ max_bytes = 2
    /\ est = max_bytes
    /\ downloaded = max_bytes
    /\ Size(Last(outcomes).dest) = max_bytes
----------------------------------------------------------------------------
(* Where the files of a download land.  mode_download runs on the result  *)
(* of a crawl of one page whose links carry ".." segments and encoded "/" *)
(* characters, download_direct_file on a Content-Disposition file name.   *)
(* The answers of the server are fixed: the probes give no size.          *)

\* a page with a plain file, a full URL with ".." segments inside its path,
\* and two names with encoded "/" characters
SitePlace ==
    (Docs :> << Rel(<<File("ok", "pdf")>>, FALSE),
                Full("http", Hn, <<Seg("a"), DotDot, DotDot, File("mid", "pdf")>>, FALSE),
                Rel(<< <<".", ".", "%2F", ".", ".", "%2F", "enc", ".", "pdf">> >>, FALSE),
                Rel(<< <<"%2F", "tmp", "%2F", "abs", ".", "pdf">> >>, FALSE) >>)

\* Content-Disposition file names: none, a plain one, one that climbs, an
\* absolute one
PlaceCdNames ==
    {NoName, <<"r", ".", "pdf">>, <<".", ".", "/", "cd", ".", "pdf">>,
     <<"/", "tmp", "/", "cd", ".", "pdf">>}

\* the segments of a name, cut at its "/" characters
RECURSIVE SplitName(_, _)
SplitName(ts, seg) ==
    IF ts = <<>> THEN <<seg>>
    ELSE IF Head(ts) = "/" THEN <<seg>> \o SplitName(Tail(ts), <<>>)
    ELSE SplitName(Tail(ts), Append(seg, Head(ts)))

\* walking the components below the destination root, lvl directories deep:
\* a ".." at the root itself leaves the root
RECURSIVE Climbs(_, _)
Climbs(cs, lvl) ==
    IF cs = <<>> THEN FALSE
    ELSE IF Head(cs) = DotDot THEN lvl = 0 \/ Climbs(Tail(cs), lvl - 1)
    ELSE IF Head(cs) \in {Dot, <<>>} THEN Climbs(Tail(cs), lvl)
    ELSE Climbs(Tail(cs), lvl + 1)

\* out_path = rel_dir / name, as the file system resolves it: a name that
\* starts with "/" replaces the path, a ".." component goes one directory up
Outside(d) ==
    \/ Last(d) # <<>> /\ Head(Last(d)) = "/"
    \/ Climbs(Front(d) \o SplitName(Last(d), <<>>), 0)

PlaceInit ==
    /\ impl \in {"dash", "us"}
    /\ fmode \in IF impl = "dash" THEN {"dir", "direct"} ELSE {"dir"}
    /\ site = SitePlace
    /\ root = IF fmode = "dir" THEN Url("http", Hn, Docs, TRUE, <<>>) ELSE Ua
    /\ max_files = MaxFilesBound
    /\ max_depth = MaxDepthBound
    /\ allow_ext = {Pdf, Zip}
    /\ cpc = IF fmode = "dir" THEN "done" ELSE "notcalled"
    /\ host = Lower(root.netloc)
    /\ q = <<>>
    /\ visited_dirs = {}
    /\ files = IF fmode = "dir" THEN CrawlRun(root, {}).files ELSE <<>>
    /\ cur = Entry(root, 0)
    /\ links = <<>>
    /\ fetchLog = <<>>
    /\ qLog = <<>>
    /\ max_bytes \in 1..MaxBytesBound
    /\ mode = "download"
    /\ probe = IF fmode = "dir" THEN NoProbe
               ELSE [asked |-> TRUE, exc |-> FALSE, ct |-> "application/zip"]
    /\ fpc = IF fmode = "dir" THEN "idle" ELSE "head"
    /\ todo = AllowedOf(files, allow_ext)
    /\ leaf = NoLeaf
    /\ est = None
    /\ downloaded = 0
    /\ pending = 0
    /\ disk = NoFiles
    /\ outcomes = <<>>
    /\ reqs = <<>>
    /\ created = {}
    /\ writing = FALSE
    /\ raised = ""
    /\ MainRunning
    /\ hresp \in IF fmode = "dir"
                 THEN {[exc |-> FALSE, status |-> 200, cl |-> HdrAbsent, ct |-> "",
                        cd |-> NoName]}
                 ELSE {[exc |-> FALSE, status |-> 200, cl |-> HdrAbsent,
                        ct |-> "application/zip", cd |-> n] : n \in PlaceCdNames}
    /\ rresp = [exc |-> FALSE, status |-> 404, cr |-> HdrAbsent, cl |-> HdrAbsent]
    /\ body = None
    /\ total = 0
    /\ unknown = 0
    /\ sizeLog = <<>>
    /\ BotIdle

PlaceNext ==
    \/ FetchBegin
    \/ HeadUsOn(hresp)
    \/ RangeUsOn(rresp)
    \/ HeadDashOn(hresp)
    \/ HeadDirectOn(hresp)
    \/ GatePass
    \/ GetOk
    \/ RecvChunk
    \/ WriteChunk
    \/ Overflow
    \/ StreamEnd
    \/ ModeReturn

SpecPlace == PlaceInit /\ [][PlaceNext]_vars

\* C32: every file a download has created lies inside the destination
\* root: its path, made of the URL's path segments and the derived name,
\* does not resolve to a location outside it.
C32_CreatedFilesInsideRoot == \A d \in created : ~Outside(d)
----------------------------------------------------------------------------
(* Claims about the files left by mode_download, checked under SpecFetch *)

\* C33: when download mode has returned, every leaf it reported as
\* downloaded has its file on disk, holding the byte count reported for it,
\* whatever happened to the leaves attempted after it.
C33_ReportedFilesPresent ==
    (fpc = "done" /\ mode = "download") =>
        \A i \in 1..Len(outcomes) :
            outcomes[i].kind = "OK" => Size(outcomes[i].dest) = outcomes[i].bytes

(***************************************************************************)
(* The bot of main.py: the handlers put jobs on one queue and one worker   *)
(* task, created by main, takes them.  A job is [id, chat_id]: id is the   *)
(* position of the job in the order the handlers put them.  Every await of *)
(* the worker is one step; bot.send_message either returns or raises.      *)
(***************************************************************************)
MaxJobs == 3

BotChats == {1, 2}

Job(n, c) == [id |-> n, chat_id |-> c]

\* the downloader script is not running in the process of the bot
ScriptIdle ==
    /\ impl = "dash"
    /\ site = SiteScenario
    /\ root = Url("http", Hn, Docs, TRUE, <<>>)
    /\ max_files = 0
    /\ max_depth = 0
    /\ allow_ext = {}
    /\ cpc = "done"
    /\ host = Hn
    /\ q = <<>>
    /\ visited_dirs = {}
    /\ files = <<>>
    /\ cur = Entry(root, 0)
    /\ links = <<>>
    /\ fetchLog = <<>>
    /\ qLog = <<>>
    /\ FetchIdle
    /\ MainRunning
    /\ SizeIdle

BotInit ==
    /\ ScriptIdle
    /\ BotIdle

\* size_cmd, count_cmd, download_cmd, text_fallback: await queue.put(Job(...))
Put(c) ==
    /\ put < MaxJobs
    /\ put' = put + 1
    /\ queue' = Append(queue, Job(put + 1, c))
    /\ UNCHANGED <<chatVars, serverVars, sizeVars, mainVars, fetchVars, crawlVars,
                   wpc, job, taken, marked>>

\* where the worker goes when an await inside the try block has raised
RaisedInTry(pc) == "handler"

\* where the worker goes after queue.task_done() in the finally block: back
\* to the head of the loop, or out of the function when the except block
\* has raised
AfterFinally(pc) == IF pc = "unwind" THEN "dead" ELSE "get"

\* job = await queue.get()
WGet ==
    /\ wpc = "get"
    /\ queue # <<>>
    /\ job' = Head(queue)
    /\ queue' = Tail(queue)
    /\ taken' = Append(taken, Head(queue))
    /\ wpc' = "start"
    /\ UNCHANGED <<chatVars, serverVars, sizeVars, mainVars, fetchVars, crawlVars,
                   put, marked>>

\* await bot.send_message(job.chat_id, "Start: ...")
WStart ==
    /\ wpc = "start"
    /\ \E ok \in BOOLEAN : wpc' = IF ok THEN "run" ELSE RaisedInTry(wpc)
    /\ UNCHANGED <<chatVars, serverVars, sizeVars, mainVars, fetchVars, crawlVars,
                   queue, put, job, taken, marked>>

\* success, output = await run_downloader(job)
WRun ==
    /\ wpc = "run"
    /\ \E r \in {"success", "failure", "raise"} :
          wpc' = IF r = "raise" THEN RaisedInTry(wpc) ELSE "result"
    /\ UNCHANGED <<chatVars, serverVars, sizeVars, mainVars, fetchVars, crawlVars,
                   queue, put, job, taken, marked>>

\* await bot.send_message(job.chat_id, "Done ..." or the failure text)
WResult ==
    /\ wpc = "result"
    /\ \E ok \in BOOLEAN : wpc' = IF ok THEN "finally" ELSE RaisedInTry(wpc)
    /\ UNCHANGED <<chatVars, serverVars, sizeVars, mainVars, fetchVars, crawlVars,
                   queue, put, job, taken, marked>>

\* except Exception as e: await bot.send_message(job.chat_id, "Error: ...")
WHandler ==
    /\ wpc = "handler"
    /\ \E ok \in BOOLEAN : wpc' = IF ok THEN "finally" ELSE "unwind"
    /\ UNCHANGED <<chatVars, serverVars, sizeVars, mainVars, fetchVars, crawlVars,
                   queue, put, job, taken, marked>>

\* finally: queue.task_done()
WFinally ==
    /\ wpc \in {"finally", "unwind"}
    /\ marked' = Append(marked, job)
    /\ job' = NoJob
    /\ wpc' = AfterFinally(wpc)
    /\ UNCHANGED <<chatVars, serverVars, sizeVars, mainVars, fetchVars, crawlVars,
                   queue, put, taken>>

WorkerNext == WGet \/ WStart \/ WRun \/ WResult \/ WHandler \/ WFinally

BotNext == (\E c \in BotChats : Put(c)) \/ WorkerNext

\* the event loop resumes the worker task whenever its await has completed
SpecBot == BotInit /\ [][BotNext]_vars /\ WF_vars(WorkerNext)

\* the ids of a sequence of jobs
Ids(js) == [i \in 1..Len(js) |-> js[i].id]

\* the ids 1..n in order
Upto(n) == [i \in 1..n |-> i]

\* the jobs are taken in the order they were put, one at a time, and each
\* taken job is marked done once, before the next is taken
FifoOneAtATime ==
    /\ Ids(taken) = Upto(Len(taken))
    /\ Len(taken) <= put
    /\ Len(marked) <= Len(taken)
    /\ Len(taken) <= Len(marked) + 1
    /\ marked = SubSeq(taken, 1, Len(marked))

\* C34: every job put on the queue is eventually taken by the worker and
\* marked done exactly once, in FIFO order and one job at a time, and the
\* worker task never ends: whatever raised while a job ran or while its
\* messages were sent, the worker goes on to the later jobs.
C34_EveryJobDoneWorkerSurvives ==
    /\ [](FifoOneAtATime /\ wpc # "dead")
    /\ \A n \in 1..MaxJobs : (put >= n) ~> (Len(marked) >= n)

(***************************************************************************)
(* The gallery paging of handlers/callback_handler.py.  A UserState keeps  *)
(* current_gallery (here: whether one is set), current_image_index,        *)
(* total_images and image_urls; image_urls is the sequence of the page     *)
(* numbers build_image_url was given.  A callback reads and writes the     *)
(* state with no suspension in between (fetch_gallery_metadata awaits      *)
(* nothing, send_image reads the state before its first await), so one     *)
(* callback is one step.                                                   *)
(***************************************************************************)
MaxImages == 3

Chats == {1, 2}

\* fetch_gallery_metadata: total_images is 1 without a counter or on an
\* error, int(match.group(1)) otherwise, and \d+ matches "0" as well
Totals == 0..MaxImages

\* UserState.__init__
NewState == [current_gallery |-> FALSE, current_image_index |-> 0,
             total_images |-> 0, image_urls |-> <<>>]

\* get_user_state(chat_id): the states after the call
get_user_state(c) ==
    IF c \in DOMAIN USER_STATES THEN USER_STATES
    ELSE [d \in DOMAIN USER_STATES \cup {c} |->
             IF d = c THEN NewState ELSE USER_STATES[d]]

\* [build_image_url(..., i + 1) for i in range(total)]
ImageUrls(t) == [i \in 1..t |-> i]

\* state.image_urls[idx] finds an entry (Python counts from 0, and from the
\* end for a negative index)
Addresses(urls, idx) == idx < Len(urls) /\ idx >= 0 - Len(urls)

\* send_image: idx = state.current_image_index; url = state.image_urls[idx]
\* raises IndexError when there is no such entry
send_image(c, data, st) ==
    [chat |-> c, data |-> data, sent |-> TRUE, idx |-> st.current_image_index,
     ok |-> Addresses(st.image_urls, st.current_image_index)]

NotSent(c, data, st) ==
    [chat |-> c, data |-> data, sent |-> FALSE, idx |-> st.current_image_index,
     ok |-> TRUE]

GalleryInit ==
    /\ ScriptIdle
    /\ BotIdle

\* data.startswith("select_manga:")
SelectManga(c, t) ==
    LET st == [current_gallery |-> TRUE, current_image_index |-> 0,
               total_images |-> t, image_urls |-> ImageUrls(t)]
    IN /\ USER_STATES' = [get_user_state(c) EXCEPT ![c] = st]
       /\ shown' = send_image(c, "select_manga", st)
       /\ UNCHANGED <<botVars, serverVars, sizeVars, mainVars, fetchVars, crawlVars>>

\* data == "next_img"
NextImg(c) ==
    LET old == get_user_state(c)[c]
        st == [old EXCEPT !.current_image_index = @ + 1]
    IN /\ IF old.current_image_index < old.total_images - 1
          THEN /\ USER_STATES' = [get_user_state(c) EXCEPT ![c] = st]
               /\ shown' = send_image(c, "next_img", st)
          ELSE /\ USER_STATES' = get_user_state(c)
               /\ shown' = NotSent(c, "next_img", old)
       /\ UNCHANGED <<botVars, serverVars, sizeVars, mainVars, fetchVars, crawlVars>>

\* data == "prev_img"
PrevImg(c) ==
    LET old == get_user_state(c)[c]
        st == [old EXCEPT !.current_image_index = @ - 1]
    IN /\ IF old.current_image_index > 0
          THEN /\ USER_STATES' = [get_user_state(c) EXCEPT ![c] = st]
               /\ shown' = send_image(c, "prev_img", st)
          ELSE /\ USER_STATES' = get_user_state(c)
               /\ shown' = NotSent(c, "prev_img", old)
       /\ UNCHANGED <<botVars, serverVars, sizeVars, mainVars, fetchVars, crawlVars>>

GalleryNext ==
    \E c \in Chats :
        \/ \E t \in Totals : SelectManga(c, t)
        \/ NextImg(c)
        \/ PrevImg(c)

SpecGallery == GalleryInit /\ [][GalleryNext]_vars

\* the state of chat c before the step, as get_user_state would return it
Before(c) == get_user_state(c)[c]

\* C35: after every callback, each chat that has selected a gallery has
\* 0 <= current_image_index <= total_images - 1, and the image sent, if one
\* is, is an existing entry of image_urls; next_img at the last image and
\* prev_img at the first image send nothing and leave the state of the chat
\* as it was; and the only chat whose state a callback changes is its own.
C35_IndexInRangeEdgesIsolation ==
    [][ /\ \A c \in DOMAIN USER_STATES' :
              USER_STATES'[c].current_gallery =>
                  /\ 0 <= USER_STATES'[c].current_image_index
                  /\ USER_STATES'[c].current_image_index <= USER_STATES'[c].total_images - 1
        /\ shown'.sent => shown'.ok
        /\ \A c \in Chats :
              /\ Before(c).current_gallery
              /\ shown'.chat = c
              /\ \/ /\ shown'.data = "next_img"
                    /\ Before(c).current_image_index = Before(c).total_images - 1
                 \/ /\ shown'.data = "prev_img"
                    /\ Before(c).current_image_index = 0
              => ~shown'.sent /\ USER_STATES'[c] = Before(c)
        /\ \A c \in DOMAIN USER_STATES :
              USER_STATES'[c] # USER_STATES[c] => shown'.chat = c ]_vars


====
